---- MODULE Spec2Model ----
(***************************************************************************)
(* Model of the warehouse-management tool: the SKU resolver, the sales-row *)
(* expander and the inventory reconciler of the web application            *)
(* (wms_web_app.py), of the desktop mapper (sku_msku_gui_mapper.py) and of *)
(* the database service (database/service.py).                             *)
(***************************************************************************)
EXTENDS Integers, Sequences, FiniteSets, TLC

(***************************************************************************)
(* Bounds of the model.                                                    *)
(***************************************************************************)
MaxMappingRows == 2
MaxComboRows == 1
MaxComboCols == 2
MaxRows == 2
MaxQty == 2

(***************************************************************************)
(* Values.                                                                 *)
(***************************************************************************)
NaN == "NaN"
SKUs == {"S1", "CX"}
MSKUs == {"A", "B"}
NotFound == "Mapping Not Found"
Qtys == -1 .. MaxQty

Range(s) == {s[i] : i \in DOMAIN s}

SeqsUpTo(S, n) == UNION {[1 .. k -> S] : k \in 0 .. n}

(***************************************************************************)
(* pandas: pd.isna / pd.notna on a cell.                                   *)
(***************************************************************************)
isna(v) == v = NaN
notna(v) == v # NaN

(***************************************************************************)
(* The sheets of WMS-04-02.xlsx.                                           *)
(***************************************************************************)
MappingRows == [sku : SKUs, msku : MSKUs]
MappingTables == SeqsUpTo(MappingRows, MaxMappingRows)

ComboRows == [Combo : {"CX", NaN}, SKU : [1 .. MaxComboCols -> MSKUs \cup {NaN}]]
ComboSheets == SeqsUpTo(ComboRows, MaxComboRows)

(***************************************************************************)
(* WMSProcessor.create_combo_mapping: the non-blank SKU1.. values of each  *)
(* row with a non-blank combo SKU, in column order; rows with no such      *)
(* value are left out; a later row of the same combo SKU replaces an       *)
(* earlier one.                                                            *)
(***************************************************************************)
RECURSIVE row_components(_, _)
row_components(row, i) ==
    IF i > Len(row.SKU) THEN <<>>
    ELSE (IF notna(row.SKU[i]) THEN <<row.SKU[i]>> ELSE <<>>) \o row_components(row, i + 1)

DictSet(d, k, v) == [x \in DOMAIN d \cup {k} |-> IF x = k THEN v ELSE d[x]]

EmptyDict == <<>>

\* the loop that also enters a combo SKU whose row has no component
RECURSIVE combo_map_keeping_empty(_, _, _)
combo_map_keeping_empty(sheet, i, combo_map) ==
    IF i > Len(sheet) THEN combo_map
    ELSE LET row == sheet[i]
         IN  combo_map_keeping_empty(sheet, i + 1,
                 IF notna(row.Combo)
                 THEN DictSet(combo_map, row.Combo, row_components(row, 1))
                 ELSE combo_map)

RECURSIVE combo_map_from(_, _, _)
combo_map_from(sheet, i, combo_map) ==
    IF i > Len(sheet) THEN combo_map
    ELSE LET row == sheet[i]
             components == row_components(row, 1)
         IN  combo_map_from(sheet, i + 1,
                 IF notna(row.Combo) /\ components # <<>>
                 THEN DictSet(combo_map, row.Combo, components)
                 ELSE combo_map)

create_combo_mapping(sheet) == combo_map_from(sheet, 1, EmptyDict)

(***************************************************************************)
(* Python values: None, truthiness of a message, and a dict that keeps the *)
(* insertion order of its keys (a sequence of key/value entries).          *)
(***************************************************************************)
None == "None"
Truthy(v) == v # None /\ v # ""

Keys(d) == {d[i].k : i \in DOMAIN d}
Has(d, k) == k \in Keys(d)
Get(d, k) == (CHOOSE e \in Range(d) : e.k = k).v
\* the dict update that keeps the last quantity of a key instead of the sum
AddReplacing(d, k, q) ==
    IF Has(d, k) THEN [i \in DOMAIN d |-> IF d[i].k = k THEN [k |-> k, v |-> q] ELSE d[i]]
    ELSE Append(d, [k |-> k, v |-> q])

Add(d, k, q) ==
    IF Has(d, k) THEN [i \in DOMAIN d |-> IF d[i].k = k THEN [k |-> k, v |-> d[i].v + q] ELSE d[i]]
    ELSE Append(d, [k |-> k, v |-> q])

(***************************************************************************)
(* Column headers of a sales file.  Words(h) is h upper-cased and split at *)
(* its spaces, so that the space-joined, upper-cased header list is the    *)
(* concatenation of the Words of its headers.                              *)
(***************************************************************************)
Headers == {"FNSKU", "MSKU", "SKU", "Fulfillment Center", "Order Item ID", "FSN",
            "Sub Order No", "Quantity", "Event Type", "Disposition"}

Words(h) ==
    CASE h = "Fulfillment Center" -> <<"FULFILLMENT", "CENTER">>
      [] h = "Order Item ID" -> <<"ORDER", "ITEM", "ID">>
      [] h = "Sub Order No" -> <<"SUB", "ORDER", "NO">>
      [] h = "Quantity" -> <<"QUANTITY">>
      [] h = "Event Type" -> <<"EVENT", "TYPE">>
      [] h = "Disposition" -> <<"DISPOSITION">>
      [] OTHER -> <<h>>

RECURSIVE join_upper(_, _)
join_upper(columns, i) ==
    IF i > Len(columns) THEN <<>> ELSE Words(columns[i]) \o join_upper(columns, i + 1)

\* token in columns_str, for a token made of whole words
Contains(str, token) ==
    \E i \in 0 .. Len(str) - Len(token) :
        \A j \in 1 .. Len(token) : str[i + j] = token[j]

(***************************************************************************)
(* WMSProcessor.detect_platform / SKUMapperGUI.detect_platform.            *)
(***************************************************************************)
detect_platform(columns) ==
    LET columns_str == join_upper(columns, 1)
    IN  IF Contains(columns_str, <<"FNSKU">>) \/ Contains(columns_str, <<"FULFILLMENT", "CENTER">>)
        THEN "Amazon"
        ELSE IF Contains(columns_str, <<"ORDER", "ITEM", "ID">>) \/ Contains(columns_str, <<"FSN">>)
        THEN "Flipkart"
        ELSE IF Contains(columns_str, <<"SUB", "ORDER", "NO">>)
        THEN "Meesho"
        ELSE "Unknown"

(***************************************************************************)
(* WMSProcessor.get_sku_column / SKUMapperGUI.get_sku_column.              *)
(***************************************************************************)
\* the lookup that takes a 'SKU' column whatever the platform is
get_sku_column_any(columns, platform) ==
    IF platform = "Amazon"
    THEN IF "FNSKU" \in Range(columns) THEN "FNSKU"
         ELSE IF "MSKU" \in Range(columns) THEN "MSKU"
         ELSE None
    ELSE IF "SKU" \in Range(columns) THEN "SKU" ELSE None

get_sku_column(columns, platform) ==
    IF platform = "Amazon"
    THEN IF "FNSKU" \in Range(columns) THEN "FNSKU"
         ELSE IF "MSKU" \in Range(columns) THEN "MSKU"
         ELSE None
    ELSE IF platform \in {"Flipkart", "Meesho"}
    THEN IF "SKU" \in Range(columns) THEN "SKU" ELSE None
    ELSE None

(***************************************************************************)
(* State.  app is the program that was started (start_wms.py); the tables  *)
(* and the ledger are the attributes of WMSProcessor / SKUMapperGUI; op,   *)
(* arg and ret are the last call, its input and what it returned; prev is  *)
(* the ledger as it was when that call began; run holds, for each request  *)
(* that the web application is serving step by step, the local variables   *)
(* of its handler.                                                         *)
(***************************************************************************)
VARIABLES app, mapping_data, combo_mapping, current_inventory, handle_combos,
          db, session, op, arg, ret, prev, run

vars == <<app, mapping_data, combo_mapping, current_inventory, handle_combos,
          db, session, op, arg, ret, prev, run>>

(***************************************************************************)
(* WMSProcessor.map_sku_to_msku.                                           *)
(***************************************************************************)
mapping_rows_of(sku) == SelectSeq(mapping_data, LAMBDA r : r.sku = sku)

\* the resolver taking the last matching mapping row (iloc[-1])
map_sku_to_msku_last_match(sku) ==
    IF sku \in DOMAIN combo_mapping
    THEN [type |-> "combo", components |-> combo_mapping[sku]]
    ELSE LET result == mapping_rows_of(sku)
         IN  IF result # <<>>
             THEN [type |-> "single", msku |-> result[Len(result)].msku]
             ELSE [type |-> "not_found", msku |-> NotFound]

\* the resolver with the two lookups in the other order
map_sku_to_msku_mapping_first(sku) ==
    LET result == mapping_rows_of(sku)
    IN  IF result # <<>>
        THEN [type |-> "single", msku |-> result[1].msku]
        ELSE IF sku \in DOMAIN combo_mapping
        THEN [type |-> "combo", components |-> combo_mapping[sku]]
        ELSE [type |-> "not_found", msku |-> NotFound]

map_sku_to_msku(sku) ==
    IF sku \in DOMAIN combo_mapping
    THEN [type |-> "combo", components |-> combo_mapping[sku]]
    ELSE LET result == mapping_rows_of(sku)
         IN  IF result # <<>>
             THEN [type |-> "single", msku |-> result[1].msku]
             ELSE [type |-> "not_found", msku |-> NotFound]

(***************************************************************************)
(* SKUMapperGUI.map_sku_to_msku: the combo table is consulted only while   *)
(* the "Handle Combo Products" option is ticked.                           *)
(***************************************************************************)
gui_map_sku_to_msku(sku) ==
    IF handle_combos /\ sku \in DOMAIN combo_mapping
    THEN [type |-> "combo", components |-> combo_mapping[sku]]
    ELSE LET result == mapping_rows_of(sku)
         IN  IF result # <<>>
             THEN [type |-> "single", msku |-> result[1].msku]
             ELSE [type |-> "not_found", msku |-> NotFound]

(***************************************************************************)
(* A sales file: readable or not, its header list and its rows (a row maps *)
(* each header to a cell).  row.get(c) is None and row.get(c, d) is d when *)
(* the file has no column c.                                               *)
(***************************************************************************)
row_get(row, c, default) == IF c \in DOMAIN row THEN row[c] ELSE default

\* row.copy() followed by the assignments of the fields of over
with_fields(row, over) == over @@ row

(***************************************************************************)
(* The loop body of process_sales_file after the row was accepted: the     *)
(* lines and the quantities sold that one row adds.  platform_field is the *)
(* 'Platform' field the web application adds to each line.                 *)
(***************************************************************************)
\* the fan-out with the quantity shared out among the components
combo_lines_divided(row, sku, quantity, components, platform_field, acc) ==
    LET share == IF components = <<>> THEN quantity ELSE quantity \div Len(components)
        RECURSIVE lines_from(_, _)
        lines_from(i, a) ==
            IF i > Len(components) THEN a
            ELSE lines_from(i + 1,
                     [processed_rows |-> Append(a.processed_rows,
                          with_fields(row,
                              ("Original_SKU" :> sku) @@ ("MSKU" :> components[i]) @@
                              ("Quantity" :> share) @@
                              ("Product_Type" :> "Combo_Component") @@ platform_field)),
                      inventory_changes |-> Add(a.inventory_changes, components[i], share)])
    IN  lines_from(1, acc)

\* the combo branch that gives a repeated component one line only
RECURSIVE combo_lines_distinct(_, _, _, _, _, _)
combo_lines_distinct(row, sku, quantity, components, platform_field, acc) ==
    IF components = <<>> THEN acc
    ELSE IF \E j \in DOMAIN Tail(components) : Tail(components)[j] = Head(components)
    THEN combo_lines_distinct(row, sku, quantity, Tail(components), platform_field, acc)
    ELSE LET component_msku == Head(components)
             combo_row == with_fields(row,
                 ("Original_SKU" :> sku) @@ ("MSKU" :> component_msku) @@
                 ("Quantity" :> quantity) @@ ("Product_Type" :> "Combo_Component") @@
                 platform_field)
         IN  combo_lines_distinct(row, sku, quantity, Tail(components), platform_field,
                 [processed_rows |-> Append(acc.processed_rows, combo_row),
                  inventory_changes |-> Add(acc.inventory_changes, component_msku, quantity)])

RECURSIVE combo_lines(_, _, _, _, _, _)
combo_lines(row, sku, quantity, components, platform_field, acc) ==
    IF components = <<>> THEN acc
    ELSE LET component_msku == Head(components)
             combo_row == with_fields(row,
                 ("Original_SKU" :> sku) @@ ("MSKU" :> component_msku) @@
                 ("Quantity" :> quantity) @@ ("Product_Type" :> "Combo_Component") @@
                 platform_field)
         IN  combo_lines(row, sku, quantity, Tail(components), platform_field,
                 [processed_rows |-> Append(acc.processed_rows, combo_row),
                  inventory_changes |-> Add(acc.inventory_changes, component_msku, quantity)])

\* the expansion that emits nothing for a SKU that is not found
expand_row_dropping_unknown(row, sku, quantity, mapping_result, platform_field, acc) ==
    IF mapping_result.type = "combo"
    THEN combo_lines(row, sku, quantity, mapping_result.components, platform_field, acc)
    ELSE IF mapping_result.type = "single"
    THEN LET new_row == with_fields(row,
                 ("MSKU" :> mapping_result.msku) @@ ("Product_Type" :> "Single") @@
                 platform_field)
         IN  [processed_rows |-> Append(acc.processed_rows, new_row),
              inventory_changes |-> Add(acc.inventory_changes, mapping_result.msku, quantity)]
    ELSE acc

expand_row(row, sku, quantity, mapping_result, platform_field, acc) ==
    IF mapping_result.type = "combo"
    THEN combo_lines(row, sku, quantity, mapping_result.components, platform_field, acc)
    ELSE IF mapping_result.type = "single"
    THEN LET new_row == with_fields(row,
                 ("MSKU" :> mapping_result.msku) @@ ("Product_Type" :> "Single") @@
                 platform_field)
         IN  [processed_rows |-> Append(acc.processed_rows, new_row),
              inventory_changes |-> Add(acc.inventory_changes, mapping_result.msku, quantity)]
    ELSE LET new_row == with_fields(row,
                 ("MSKU" :> NotFound) @@ ("Product_Type" :> "Unknown") @@ platform_field)
         IN  [processed_rows |-> Append(acc.processed_rows, new_row),
              inventory_changes |-> acc.inventory_changes]

(***************************************************************************)
(* WMSProcessor.process_sales_file: the rows of the loop, then the whole   *)
(* function.  It returns (processed_df, inventory_changes, error); df_none *)
(* says that processed_df is None.                                         *)
(***************************************************************************)
\* the skip test with a strict comparison
missing_data_strict(sku, quantity) == isna(sku) \/ quantity < 0

missing_data(sku, quantity) == isna(sku) \/ quantity <= 0

amazon_excluded(row) ==
    row_get(row, "Event Type", None) # "Shipments" \/ row_get(row, "Disposition", None) # "SELLABLE"

process_row(row, sku_column, platform, acc) ==
    LET sku == row[sku_column]
        quantity == row_get(row, "Quantity", 1)
    IN  IF missing_data(sku, quantity) THEN acc
        ELSE IF platform = "Amazon" /\ amazon_excluded(row) THEN acc
        ELSE expand_row(row, sku, quantity, map_sku_to_msku(sku), "Platform" :> platform, acc)

RECURSIVE process_rows(_, _, _, _, _)
process_rows(rows, i, sku_column, platform, acc) ==
    IF i > Len(rows) THEN acc
    ELSE process_rows(rows, i + 1, sku_column, platform,
                      process_row(rows[i], sku_column, platform, acc))

no_sku_column_message(platform) ==
    CASE platform = "Amazon" -> "No SKU column found for platform Amazon"
      [] platform = "Flipkart" -> "No SKU column found for platform Flipkart"
      [] platform = "Meesho" -> "No SKU column found for platform Meesho"
      [] OTHER -> "No SKU column found for platform Unknown"

EmptyAcc == [processed_rows |-> <<>>, inventory_changes |-> <<>>]

(***************************************************************************)
(* read_csv gives a 'Quantity' column that has a cell which is not a       *)
(* number the dtype object, and every cell of it is then a str.  The test  *)
(* quantity <= 0 of the first row whose SKU is not missing raises a        *)
(* TypeError, which leaves the loop and the function through the except    *)
(* clause around the whole body.                                           *)
(***************************************************************************)
CompareError == "'<=' not supported between instances of 'str' and 'int'"

quantity_is_str(file) ==
    file.quantity_dtype = "object" /\ "Quantity" \in Range(file.columns)

compare_raises(file, sku_column) ==
    quantity_is_str(file) /\ \E i \in DOMAIN file.rows : notna(file.rows[i][sku_column])

\* the expander reading the 'SKU' column when the platform gives no SKU column
process_sales_file_fallback(file) ==
    IF ~file.readable
    THEN [df_none |-> TRUE, processed_rows |-> <<>>, inventory_changes |-> <<>>,
          error |-> file.read_error]
    ELSE LET platform == detect_platform(file.columns)
             found == get_sku_column(file.columns, platform)
             sku_column == IF found = None /\ "SKU" \in Range(file.columns)
                           THEN "SKU" ELSE found
         IN  IF sku_column = None
             THEN [df_none |-> TRUE, processed_rows |-> <<>>, inventory_changes |-> <<>>,
                   error |-> no_sku_column_message(platform)]
             ELSE IF compare_raises(file, sku_column)
             THEN [df_none |-> TRUE, processed_rows |-> <<>>, inventory_changes |-> <<>>,
                   error |-> CompareError]
             ELSE LET acc == process_rows(file.rows, 1, sku_column, platform, EmptyAcc)
                  IN  [df_none |-> FALSE, processed_rows |-> acc.processed_rows,
                       inventory_changes |-> acc.inventory_changes, error |-> None]

process_sales_file(file) ==
    IF ~file.readable
    THEN [df_none |-> TRUE, processed_rows |-> <<>>, inventory_changes |-> <<>>,
          error |-> file.read_error]
    ELSE LET platform == detect_platform(file.columns)
             sku_column == get_sku_column(file.columns, platform)
         IN  IF sku_column = None
             THEN [df_none |-> TRUE, processed_rows |-> <<>>, inventory_changes |-> <<>>,
                   error |-> no_sku_column_message(platform)]
             ELSE IF compare_raises(file, sku_column)
             THEN [df_none |-> TRUE, processed_rows |-> <<>>, inventory_changes |-> <<>>,
                   error |-> CompareError]
             ELSE LET acc == process_rows(file.rows, 1, sku_column, platform, EmptyAcc)
                  IN  [df_none |-> FALSE, processed_rows |-> acc.processed_rows,
                       inventory_changes |-> acc.inventory_changes, error |-> None]

(***************************************************************************)
(* SKUMapperGUI.process_sales_file: no platform filter and no 'Platform'   *)
(* field; it returns the output frame or None, and hands the quantities    *)
(* sold to update_inventory_tracking, which only appends them to a log.    *)
(***************************************************************************)
NoFields == [c \in {} |-> None]

gui_process_row(row, sku_column, acc) ==
    LET sku == row[sku_column]
        quantity == row_get(row, "Quantity", 1)
    IN  IF missing_data(sku, quantity) THEN acc
        ELSE expand_row(row, sku, quantity, gui_map_sku_to_msku(sku), NoFields, acc)

RECURSIVE gui_process_rows(_, _, _, _)
gui_process_rows(rows, i, sku_column, acc) ==
    IF i > Len(rows) THEN acc
    ELSE gui_process_rows(rows, i + 1, sku_column, gui_process_row(rows[i], sku_column, acc))

gui_process_sales_file(file) ==
    IF ~file.readable
    THEN [df_none |-> TRUE, processed_rows |-> <<>>, inventory_changes |-> <<>>,
          error |-> file.read_error]
    ELSE LET platform == detect_platform(file.columns)
             sku_column == get_sku_column(file.columns, platform)
         IN  IF sku_column = None
             THEN [df_none |-> TRUE, processed_rows |-> <<>>, inventory_changes |-> <<>>,
                   error |-> "No SKU column found"]
             ELSE IF compare_raises(file, sku_column)
             THEN [df_none |-> TRUE, processed_rows |-> <<>>, inventory_changes |-> <<>>,
                   error |-> CompareError]
             ELSE LET acc == gui_process_rows(file.rows, 1, sku_column, EmptyAcc)
                  IN  [df_none |-> FALSE, processed_rows |-> acc.processed_rows,
                       inventory_changes |-> acc.inventory_changes, error |-> None]

(***************************************************************************)
(* The sales files the model reads.                                        *)
(***************************************************************************)
HeaderLists ==
    { <<"FNSKU", "Quantity", "Event Type", "Disposition">>,
      <<"Fulfillment Center", "Quantity">>,
      <<"SKU", "Order Item ID", "Quantity">>,
      <<"SKU", "FSN">>,
      <<"SKU", "Sub Order No", "Quantity">>,
      <<"Order Item ID", "Quantity">>,
      <<"SKU", "Quantity">> }

CellValues(h) ==
    CASE h \in {"FNSKU", "MSKU", "SKU"} -> SKUs \cup {NaN}
      [] h = "Quantity" -> Qtys
      [] h = "Event Type" -> {"Shipments", "Refunds"}
      [] h = "Disposition" -> {"SELLABLE", "DAMAGED"}
      [] OTHER -> {"x"}

RECURSIVE RowsOf(_)
RowsOf(columns) ==
    IF columns = <<>> THEN {NoFields}
    ELSE {(Head(columns) :> v) @@ r : v \in CellValues(Head(columns)), r \in RowsOf(Tail(columns))}

ReadableFiles(n) ==
    UNION {{[readable |-> TRUE, columns |-> h, rows |-> rs, read_error |-> None,
             quantity_dtype |-> "int64"] :
                rs \in SeqsUpTo(RowsOf(h), n)} : h \in HeaderLists}

UnreadableFile ==
    [readable |-> FALSE, columns |-> <<>>, rows |-> <<>>,
     read_error |-> "No columns to parse from file", quantity_dtype |-> "int64"]

Files == ReadableFiles(MaxRows) \cup {UnreadableFile}

(***************************************************************************)
(* The states after construction.                                          *)
(***************************************************************************)
NoLedger == <<>>
NoRun == <<>>
EmptyDb == [products |-> <<>>, movements |-> <<>>, sales |-> <<>>, logs |-> <<>>]
NoSession == [products |-> <<>>, movements |-> <<>>, sales |-> <<>>, logs |-> <<>>,
              pending |-> <<>>]

InitTables ==
    /\ mapping_data \in MappingTables
    /\ combo_mapping \in {create_combo_mapping(sheet) : sheet \in ComboSheets}

\* the tables of the specifications that read sales files
MaxBatchMappingRows == 1

InitBatchTables ==
    /\ mapping_data \in SeqsUpTo(MappingRows, MaxBatchMappingRows)
    /\ combo_mapping \in {create_combo_mapping(sheet) : sheet \in ComboSheets}

(***************************************************************************)
(* The resolvers applied to one SKU.                                       *)
(***************************************************************************)
InitResolve ==
    /\ InitTables
    /\ app \in {"web", "gui"}
    /\ handle_combos \in IF app = "gui" THEN BOOLEAN ELSE {TRUE}
    /\ current_inventory = NoLedger
    /\ db = EmptyDb /\ session = NoSession
    /\ op = "init" /\ arg \in SKUs /\ ret = None /\ prev = NoLedger /\ run = NoRun

WebMapSku ==
    /\ app = "web" /\ op = "init"
    /\ op' = "map_sku_to_msku"
    /\ ret' = map_sku_to_msku(arg)
    /\ UNCHANGED <<app, mapping_data, combo_mapping, current_inventory, handle_combos,
                   db, session, arg, prev, run>>

GuiMapSku ==
    /\ app = "gui" /\ op = "init"
    /\ op' = "map_sku_to_msku"
    /\ ret' = gui_map_sku_to_msku(arg)
    /\ UNCHANGED <<app, mapping_data, combo_mapping, current_inventory, handle_combos,
                   db, session, arg, prev, run>>

NextResolve == WebMapSku \/ GuiMapSku

ResolveSpec == InitResolve /\ [][NextResolve]_vars

(***************************************************************************)
(* The expanders applied to one sales file.                                *)
(***************************************************************************)
InitExpand ==
    /\ InitBatchTables
    /\ app \in {"web", "gui"}
    /\ handle_combos \in IF app = "gui" THEN BOOLEAN ELSE {TRUE}
    /\ current_inventory = NoLedger
    /\ db = EmptyDb /\ session = NoSession
    /\ op = "init" /\ arg \in Files /\ ret = None /\ prev = NoLedger /\ run = NoRun

WebProcessSalesFile ==
    /\ app = "web" /\ op = "init"
    /\ op' = "process_sales_file"
    /\ ret' = process_sales_file(arg)
    /\ UNCHANGED <<app, mapping_data, combo_mapping, current_inventory, handle_combos,
                   db, session, arg, prev, run>>

GuiProcessSalesFile ==
    /\ app = "gui" /\ op = "init"
    /\ op' = "process_sales_file"
    /\ ret' = gui_process_sales_file(arg)
    /\ UNCHANGED <<app, mapping_data, combo_mapping, current_inventory, handle_combos,
                   db, session, arg, prev, run>>

NextExpand == WebProcessSalesFile \/ GuiProcessSalesFile

ExpandSpec == InitExpand /\ [][NextExpand]_vars

(***************************************************************************)
(* The 'Current Inventory ' sheet: one row per product, with the columns   *)
(* 'msku', 'Opening Stock' (the stock the web application updates) and     *)
(* 'Buffer Stock'.                                                         *)
(***************************************************************************)
MaxStock == 6
MaxBuffer == 10
LowStockThreshold == 5

InitStocks == {1, MaxStock}
Buffers == {0, MaxBuffer}

ProductRows(m) == {[msku |-> m, stock |-> s, buffer |-> b] : s \in InitStocks, b \in Buffers}

Ledgers ==
    {<<>>} \cup {<<a>> : a \in ProductRows("A")} \cup {<<b>> : b \in ProductRows("B")}
           \cup {<<a, b>> : a \in ProductRows("A"), b \in ProductRows("B")}

(***************************************************************************)
(* WMSProcessor.update_inventory.  With the sheet's header the exact       *)
(* column names 'msku' and 'Opening Stock' are found, so the loop runs     *)
(* over the entries of inventory_changes in insertion order.               *)
(***************************************************************************)
mask_any(ledger, msku) == \E i \in DOMAIN ledger : ledger[i].msku = msku

first_match(ledger, msku) ==
    ledger[CHOOSE i \in DOMAIN ledger :
               /\ ledger[i].msku = msku
               /\ \A j \in 1 .. i - 1 : ledger[j].msku # msku]

set_stock(ledger, msku, new_qty) ==
    [i \in DOMAIN ledger |->
        IF ledger[i].msku = msku THEN [ledger[i] EXCEPT !.stock = new_qty] ELSE ledger[i]]

stock_warning(msku, new_qty) ==
    IF new_qty < 0 THEN <<[msku |-> msku, kind |-> "Negative stock", qty |-> new_qty]>>
    ELSE IF new_qty < LowStockThreshold
    THEN <<[msku |-> msku, kind |-> "Low stock", qty |-> new_qty]>>
    ELSE <<>>

\* the loop body that opens a ledger row for an MSKU the ledger lacks
update_entry_create(st, msku, quantity_sold) ==
    IF mask_any(st.ledger, msku)
    THEN LET new_qty == first_match(st.ledger, msku).stock - quantity_sold
         IN  [ledger |-> set_stock(st.ledger, msku, new_qty),
              updated_items |-> st.updated_items + 1,
              warnings |-> st.warnings \o stock_warning(msku, new_qty)]
    ELSE [ledger |-> Append(st.ledger, [msku |-> msku, stock |-> -quantity_sold, buffer |-> 0]),
          updated_items |-> st.updated_items + 1,
          warnings |-> st.warnings \o stock_warning(msku, -quantity_sold)]

\* the loop body that takes the quantity sold off every row of the ledger
update_entry_every_row(st, msku, quantity_sold) ==
    IF mask_any(st.ledger, msku)
    THEN LET new_qty == first_match(st.ledger, msku).stock - quantity_sold
         IN  [ledger |-> [j \in DOMAIN st.ledger |->
                             [st.ledger[j] EXCEPT !.stock = @ - quantity_sold]],
              updated_items |-> st.updated_items + 1,
              warnings |-> st.warnings \o stock_warning(msku, new_qty)]
    ELSE [ledger |-> st.ledger,
          updated_items |-> st.updated_items,
          warnings |-> Append(st.warnings, [msku |-> msku, kind |-> "MSKU not found", qty |-> 0])]

update_entry(st, msku, quantity_sold) ==
    IF mask_any(st.ledger, msku)
    THEN LET current_qty == first_match(st.ledger, msku).stock
             new_qty == current_qty - quantity_sold
         IN  [ledger |-> set_stock(st.ledger, msku, new_qty),
              updated_items |-> st.updated_items + 1,
              warnings |-> st.warnings \o stock_warning(msku, new_qty)]
    ELSE [ledger |-> st.ledger,
          updated_items |-> st.updated_items,
          warnings |-> Append(st.warnings, [msku |-> msku, kind |-> "MSKU not found", qty |-> 0])]

RECURSIVE update_entries(_, _, _)
update_entries(inventory_changes, i, st) ==
    IF i > Len(inventory_changes) THEN st
    ELSE update_entries(inventory_changes, i + 1,
                        update_entry(st, inventory_changes[i].k, inventory_changes[i].v))

update_inventory(ledger, inventory_changes) ==
    IF inventory_changes = <<>>
    THEN [ledger |-> ledger,
          result |-> [status |-> "warning", message |-> "No inventory changes to apply"]]
    ELSE LET st == update_entries(inventory_changes, 1,
                       [ledger |-> ledger, updated_items |-> 0, warnings |-> <<>>])
         IN  [ledger |-> st.ledger,
              result |-> [status |-> "success", warnings |-> st.warnings,
                          updated_items |-> st.updated_items]]

(***************************************************************************)
(* process_files, the handler of /api/process: every file is expanded, the *)
(* quantities sold of the files that gave lines are combined, and the      *)
(* ledger is updated once with the combined map.  returns keeps what       *)
(* process_sales_file returned for each file.                              *)
(***************************************************************************)
RECURSIVE combine(_, _, _)
combine(total, inventory_changes, i) ==
    IF i > Len(inventory_changes) THEN total
    ELSE combine(Add(total, inventory_changes[i].k, inventory_changes[i].v),
                 inventory_changes, i + 1)

\* lines 376-406: what one file adds to the results and to the combined map,
\* r being what process_sales_file returned for it
file_outcome(st, r) ==
        IF Truthy(r.error)
        THEN [results |-> Append(st.results, [status |-> "error", message |-> r.error]),
              returns |-> Append(st.returns, r),
              total_inventory_changes |-> st.total_inventory_changes]
        ELSE IF ~r.df_none /\ r.processed_rows # <<>>
        THEN [results |-> Append(st.results,
                             [status |-> "success",
                              processed_rows |-> Len(r.processed_rows),
                              inventory_changes |-> Len(r.inventory_changes)]),
              returns |-> Append(st.returns, r),
              total_inventory_changes |->
                  combine(st.total_inventory_changes, r.inventory_changes, 1)]
        ELSE [results |-> Append(st.results,
                             [status |-> "error", message |-> "No data processed"]),
              returns |-> Append(st.returns, r),
              total_inventory_changes |-> st.total_inventory_changes]

file_step(st, file) == file_outcome(st, process_sales_file(file))

RECURSIVE file_steps(_, _, _)
file_steps(file_paths, i, st) ==
    IF i > Len(file_paths) THEN st
    ELSE file_steps(file_paths, i + 1, file_step(st, file_paths[i]))

process_files(ledger, file_paths) ==
    IF file_paths = <<>>
    THEN [ledger |-> ledger,
          response |-> [status |-> "error", message |-> "No files to process"]]
    ELSE LET st == file_steps(file_paths, 1,
                       [results |-> <<>>, returns |-> <<>>, total_inventory_changes |-> <<>>])
             u == update_inventory(ledger, st.total_inventory_changes)
         IN  [ledger |-> u.ledger,
              response |-> [status |-> "success",
                            file_results |-> st.results,
                            returns |-> st.returns,
                            total_inventory_changes |-> st.total_inventory_changes,
                            inventory_update |-> u.result,
                            total_changes |-> Len(st.total_inventory_changes)]]

(***************************************************************************)
(* DatabaseMigration.migrate_products: one Product per sheet row, its      *)
(* current stock set to the sheet's opening stock.                         *)
(***************************************************************************)
migrate_products(inventory_df) ==
    [i \in DOMAIN inventory_df |->
        [msku |-> inventory_df[i].msku,
         current_stock |-> inventory_df[i].stock,
         buffer_stock |-> inventory_df[i].buffer]]

(***************************************************************************)
(* The SQLAlchemy session.  db is what is committed; session is the view   *)
(* of the open transaction, with the objects added but not yet flushed in  *)
(* pending.  A query flushes first (autoflush); flushing a sales record    *)
(* whose NOT NULL column holds NaN raises; rollback returns to db.         *)
(***************************************************************************)
begin_session(committed) ==
    [products |-> committed.products, movements |-> committed.movements,
     sales |-> committed.sales, logs |-> committed.logs, pending |-> <<>>]

not_insertable(sales_record) ==
    \/ isna(sales_record.original_sku)
    \/ isna(sales_record.msku)

flush_raises(sess) == \E i \in DOMAIN sess.pending : not_insertable(sess.pending[i])

flush(sess) == [sess EXCEPT !.sales = sess.sales \o sess.pending, !.pending = <<>>]

rollback(committed) == begin_session(committed)

(***************************************************************************)
(* DatabaseService.update_inventory.  raises says that the database fails  *)
(* while this update runs; the handler then rolls the session back.        *)
(***************************************************************************)
product_index(products, msku) ==
    IF \E i \in DOMAIN products : products[i].msku = msku
    THEN CHOOSE i \in DOMAIN products :
             /\ products[i].msku = msku
             /\ \A j \in 1 .. i - 1 : products[j].msku # msku
    ELSE 0

db_update_inventory(committed, sess, msku, quantity_change, reference_id, raises) ==
    IF raises \/ flush_raises(sess)
    THEN [session |-> rollback(committed), success |-> FALSE,
          message |-> "Error updating inventory"]
    ELSE LET flushed == flush(sess)
             p == product_index(flushed.products, msku)
         IN  IF p = 0
             THEN [session |-> flushed, success |-> FALSE, message |-> "Product not found"]
             ELSE LET stock_before == flushed.products[p].current_stock
                      stock_after == stock_before + quantity_change
                      movement == [msku |-> msku, movement_type |-> "Sale",
                                   quantity_change |-> quantity_change,
                                   stock_before |-> stock_before,
                                   stock_after |-> stock_after,
                                   reference_id |-> reference_id]
                  IN  [session |->
                           [flushed EXCEPT !.products[p].current_stock = stock_after,
                                           !.movements = Append(@, movement)],
                       success |-> TRUE, message |-> "Updated"]

(***************************************************************************)
(* DatabaseService.process_sales_file_to_db.  processed_df is a frame made *)
(* of expanded lines: a field that some line has and this line lacks reads *)
(* as NaN, a field no line has reads as the default of row.get.            *)
(***************************************************************************)
frame_columns(lines) == UNION {DOMAIN lines[i] : i \in DOMAIN lines}

frame_isna(columns, row, c) == c \notin DOMAIN row /\ c \in columns

frame_get(columns, row, c, default) ==
    IF c \in DOMAIN row THEN row[c] ELSE IF c \in columns THEN NaN ELSE default

\* int(row.get('Quantity', 1)) raises ValueError when the cell is NaN
int_raises(columns, row) == frame_isna(columns, row, "Quantity")

db_row_step(columns, platform, row, st) ==
    LET quantity == row_get(row, "Quantity", 1)
    IN  IF int_raises(columns, row)
        THEN [st EXCEPT !.failed_records = @ + 1]
        ELSE LET msku == frame_get(columns, row, "MSKU", "")
                 sales_record ==
                     [platform |-> platform,
                      original_sku |-> frame_get(columns, row, "Original_SKU",
                                                 frame_get(columns, row, "SKU", "")),
                      msku |-> msku,
                      quantity |-> quantity,
                      product_type |-> frame_get(columns, row, "Product_Type", "Single")]
             IN  [st EXCEPT !.session.pending = Append(@, sales_record),
                            !.inventory_changes = Add(@, msku, quantity),
                            !.successful_records = @ + 1]

RECURSIVE db_row_steps(_, _, _, _, _)
db_row_steps(columns, platform, lines, i, st) ==
    IF i > Len(lines) THEN st
    ELSE db_row_steps(columns, platform, lines, i + 1,
                      db_row_step(columns, platform, lines[i], st))

RECURSIVE db_apply_changes(_, _, _, _, _, _)
db_apply_changes(committed, inventory_changes, i, batch_id, fault, st) ==
    IF i > Len(inventory_changes) THEN st
    ELSE LET u == db_update_inventory(committed, st.session, inventory_changes[i].k,
                                      -inventory_changes[i].v, batch_id, i = fault)
         IN  db_apply_changes(committed, inventory_changes, i + 1, batch_id, fault,
                 [session |-> u.session,
                  outcomes |-> Append(st.outcomes,
                                  [msku |-> inventory_changes[i].k, success |-> u.success,
                                   message |-> u.message])])

\* the status that knows no 'Partial'
log_status_all_or_nothing(successful_records, failed_records) ==
    IF failed_records = 0 THEN "Success" ELSE "Failed"

log_status(successful_records, failed_records) ==
    IF failed_records = 0 THEN "Success"
    ELSE IF successful_records > 0 THEN "Partial" ELSE "Failed"

\* what follows the row loop: the updates, the log entry and the commit
apply_and_log(committed, rows, total_records, file_name, platform, fault) ==
    LET applied == db_apply_changes(committed, rows.inventory_changes, 1, file_name, fault,
                       [session |-> rows.session, outcomes |-> <<>>])
        log == [file_name |-> file_name, platform |-> platform,
                total_records |-> total_records,
                successful_records |-> rows.successful_records,
                failed_records |-> rows.failed_records,
                status |-> log_status(rows.successful_records, rows.failed_records)]
        logged == [applied.session EXCEPT !.logs = Append(@, log)]
    IN  IF flush_raises(logged)
        THEN [db |-> committed,
              result |-> [status |-> "error", message |-> "flush failed"]]
        ELSE LET done == flush(logged)
             IN  [db |-> [products |-> done.products, movements |-> done.movements,
                          sales |-> done.sales, logs |-> done.logs],
                  result |-> [status |-> "success",
                              total_records |-> total_records,
                              successful_records |-> rows.successful_records,
                              failed_records |-> rows.failed_records,
                              inventory_changes |-> Len(rows.inventory_changes),
                              delta |-> rows.inventory_changes,
                              outcomes |-> applied.outcomes]]

process_sales_file_to_db(committed, processed_df, file_name, platform, fault) ==
    apply_and_log(committed,
        db_row_steps(frame_columns(processed_df), platform, processed_df, 1,
            [session |-> begin_session(committed), inventory_changes |-> <<>>,
             successful_records |-> 0, failed_records |-> 0]),
        Len(processed_df), file_name, platform, fault)

(***************************************************************************)
(* The same function on a frame whose 'Quantity' column holds text (dtype  *)
(* object): int() of a cell that is not a number raises ValueError, which  *)
(* the except clause of the row loop counts as a failed record.            *)
(***************************************************************************)
int_raises_on_text(cell) == \A n \in 0 .. 9 : ToString(n) # cell

int_of_text(cell) == CHOOSE n \in 0 .. 9 : ToString(n) = cell

db_text_row_step(columns, platform, row, st) ==
    IF int_raises_on_text(row["Quantity"])
    THEN [st EXCEPT !.failed_records = @ + 1]
    ELSE db_row_step(columns, platform,
                     [row EXCEPT !["Quantity"] = int_of_text(@)], st)

RECURSIVE db_text_row_steps(_, _, _, _, _)
db_text_row_steps(columns, platform, lines, i, st) ==
    IF i > Len(lines) THEN st
    ELSE db_text_row_steps(columns, platform, lines, i + 1,
                           db_text_row_step(columns, platform, lines[i], st))

process_text_frame_to_db(committed, processed_df, file_name, platform, fault) ==
    apply_and_log(committed,
        db_text_row_steps(frame_columns(processed_df), platform, processed_df, 1,
            [session |-> begin_session(committed), inventory_changes |-> <<>>,
             successful_records |-> 0, failed_records |-> 0]),
        Len(processed_df), file_name, platform, fault)

(***************************************************************************)
(* The web application serving one /api/process request, and the database  *)
(* service saving the expanded lines of one file.                          *)
(***************************************************************************)
MaxBatchRows == 1
MaxFiles == 2

BatchHeaderLists ==
    { <<"SKU", "Order Item ID", "Quantity">>,
      <<"Order Item ID">>,
      <<"SKU">> }

FilesOf(headers, n) ==
    UNION {{[readable |-> TRUE, columns |-> h, rows |-> rs, read_error |-> None,
             quantity_dtype |-> "int64"] :
                rs \in SeqsUpTo(RowsOf(h), n)} : h \in headers}

BatchFiles == FilesOf(BatchHeaderLists, MaxBatchRows) \cup {UnreadableFile}

Batches == SeqsUpTo(BatchFiles, MaxFiles)

DbHeaderLists ==
    { <<"SKU", "Order Item ID", "Quantity">>,
      <<"SKU", "FSN">> }

DbFiles == FilesOf(DbHeaderLists, MaxRows)

InitWeb ==
    /\ InitBatchTables
    /\ app = "web"
    /\ handle_combos = TRUE
    /\ current_inventory \in Ledgers
    /\ db = EmptyDb /\ session = begin_session(EmptyDb)
    /\ op = "init" /\ arg \in Batches /\ ret = None /\ prev = NoLedger /\ run = NoRun

\* the quantities sold that process_sales_file_to_db collects from the lines
db_inventory_changes(lines) ==
    db_row_steps(frame_columns(lines), "", lines, 1,
        [session |-> begin_session(EmptyDb), inventory_changes |-> <<>>,
         successful_records |-> 0, failed_records |-> 0]).inventory_changes

InitDb ==
    /\ InitBatchTables
    /\ app = "db"
    /\ handle_combos = TRUE
    /\ current_inventory = NoLedger
    /\ \E ledger \in Ledgers :
           db = [EmptyDb EXCEPT !.products = migrate_products(ledger)]
    /\ session = begin_session(db)
    /\ op = "init"
    /\ \E file \in DbFiles :
           LET lines == process_sales_file(file).processed_rows
           IN  \E fault \in 0 .. Len(db_inventory_changes(lines)) :
                   arg = [processed_df |-> lines,
                          platform |-> detect_platform(file.columns),
                          fault |-> fault]
    /\ ret = None /\ prev = NoLedger /\ run = NoRun

Init == InitWeb \/ InitDb

ProcessFiles ==
    /\ app = "web" /\ op = "init"
    /\ op' = "process_files"
    /\ LET r == process_files(current_inventory, arg)
       IN  /\ current_inventory' = r.ledger
           /\ ret' = r.response
    /\ prev' = current_inventory
    /\ UNCHANGED <<app, mapping_data, combo_mapping, handle_combos, db, session, arg, run>>

ProcessSalesFileToDb ==
    /\ app = "db" /\ op = "init"
    /\ op' = "process_sales_file_to_db"
    /\ LET r == process_sales_file_to_db(db, arg.processed_df, "sales.csv", arg.platform,
                                         arg.fault)
       IN  /\ db' = r.db
           /\ session' = begin_session(r.db)
           /\ ret' = r.result
    /\ prev' = db.products
    /\ UNCHANGED <<app, mapping_data, combo_mapping, handle_combos, current_inventory, arg, run>>

Next == ProcessFiles \/ ProcessSalesFileToDb

Spec == Init /\ [][Next]_vars

(***************************************************************************)
(* Properties.                                                             *)
(***************************************************************************)
InBothTables(sku) == sku \in DOMAIN combo_mapping /\ mapping_rows_of(sku) # <<>>

IsComboOutcome(r, sku) == r.type = "combo" /\ r.components = combo_mapping[sku]

\* C1 (as stated): every resolver, under every processing option, returns the
\* combo outcome with the component list, never 'single', for a SKU that is in
\* both the combo table and the mapping table.
C1_ComboPrecedenceEverywhere ==
    (op = "map_sku_to_msku" /\ InBothTables(arg)) => IsComboOutcome(ret, arg)

\* C1 (amended): WMSProcessor.map_sku_to_msku always, and
\* SKUMapperGUI.map_sku_to_msku while "Handle Combo Products" is ticked, return
\* the combo outcome for a SKU that is in both tables; with the option off the
\* desktop resolver returns 'single' with the first mapping row's MSKU.
C1_ComboPrecedence ==
    (op = "map_sku_to_msku" /\ InBothTables(arg)) =>
        IF app = "web" \/ handle_combos
        THEN IsComboOutcome(ret, arg)
        ELSE ret = [type |-> "single", msku |-> mapping_rows_of(arg)[1].msku]

C1_Witness ==
    /\ op = "map_sku_to_msku" /\ app = "web"
    /\ InBothTables(arg)
    /\ ret.type = "combo" /\ Len(ret.components) = 2

(***************************************************************************)
(* What the properties say about a file, a row and a ledger, stated apart  *)
(* from the operators above.                                               *)
(***************************************************************************)
HasColumn(file, c) == \E i \in DOMAIN file.columns : file.columns[i] = c

\* the column the SKU is read from, or None
SkuColumnOf(file) ==
    LET platform == detect_platform(file.columns)
    IN  IF platform = "Amazon" /\ HasColumn(file, "FNSKU") THEN "FNSKU"
        ELSE IF platform = "Amazon" /\ HasColumn(file, "MSKU") THEN "MSKU"
        ELSE IF platform \in {"Flipkart", "Meesho"} /\ HasColumn(file, "SKU") THEN "SKU"
        ELSE None

StructuralError(file) == ~file.readable \/ SkuColumnOf(file) = None

QuantityOf(row) == IF "Quantity" \in DOMAIN row THEN row["Quantity"] ELSE 1

MissingData(file, row) == row[SkuColumnOf(file)] = NaN \/ QuantityOf(row) <= 0

WithoutMissingData(file) ==
    [file EXCEPT !.rows = SelectSeq(file.rows, LAMBDA row : ~MissingData(file, row))]

LedgerHas(ledger, m) == \E r \in Range(ledger) : r.msku = m
LedgerStock(ledger, m) == (CHOOSE r \in Range(ledger) : r.msku = m).stock
DbStock(products, m) == (CHOOSE r \in Range(products) : r.msku = m).current_stock

Expanded == op = "process_sales_file" /\ ~ret.df_none

\* C3: a row whose SKU is missing or whose quantity is <= 0 gives no output
\* line and no quantity sold and is not reported as a failure: the lines and
\* the delta map are those of the file without such rows.
C3_MissingDataSkipped ==
    Expanded =>
        /\ ret.error = None
        /\ \A i \in DOMAIN ret.processed_rows :
               /\ ret.processed_rows[i][SkuColumnOf(arg)] # NaN \/ SkuColumnOf(arg) = "MSKU"
               /\ QuantityOf(ret.processed_rows[i]) > 0
        /\ \A i \in DOMAIN ret.inventory_changes : ret.inventory_changes[i].v > 0
        /\ ret = (IF app = "web" THEN process_sales_file(WithoutMissingData(arg))
                  ELSE gui_process_sales_file(WithoutMissingData(arg)))
        /\ (\A i \in DOMAIN arg.rows : MissingData(arg, arg.rows[i])) =>
               ret.processed_rows = <<>> /\ ret.inventory_changes = <<>>

C3_Witness ==
    /\ Expanded /\ app = "web"
    /\ arg.columns = <<"SKU", "Order Item ID", "Quantity">>
    /\ Len(arg.rows) = 2
    /\ arg.rows[1]["SKU"] # NaN /\ arg.rows[1]["Quantity"] = 0
    /\ ~MissingData(arg, arg.rows[2])
    /\ Len(ret.processed_rows) = 2


(***************************************************************************)
(* The batch of one file with one accepted row that sells a combo of two   *)
(* distinct components.                                                    *)
(***************************************************************************)
Accepted(file, row) ==
    /\ ~MissingData(file, row)
    /\ detect_platform(file.columns) = "Amazon" =>
           row["Event Type"] = "Shipments" /\ row["Disposition"] = "SELLABLE"

ComboSale(file) ==
    /\ ~StructuralError(file)
    /\ Len(file.rows) = 1
    /\ Accepted(file, file.rows[1])
    /\ file.rows[1][SkuColumnOf(file)] \in DOMAIN combo_mapping
    /\ LET components == combo_mapping[file.rows[1][SkuColumnOf(file)]]
       IN  Len(components) = 2 /\ components[1] # components[2]

Processed == op = "process_files" /\ arg # <<>>

\* C2: one accepted row that sells N of a combo with the distinct components
\* A and B gives one line of quantity N for each, a delta map with N units sold
\* for A and N for B, and after the ledger update the stock of A and of B (when
\* the ledger has them) is lower by exactly N.
C2_FullQuantityFanOut ==
    (Processed /\ Len(arg) = 1 /\ ComboSale(arg[1])) =>
        LET row == arg[1].rows[1]
            N == QuantityOf(row)
            components == combo_mapping[row[SkuColumnOf(arg[1])]]
            lines == ret.returns[1].processed_rows
        IN  /\ Len(lines) = 2
            /\ \A i \in 1 .. 2 : lines[i]["MSKU"] = components[i] /\ lines[i]["Quantity"] = N
            /\ ret.total_inventory_changes =
                   <<[k |-> components[1], v |-> N], [k |-> components[2], v |-> N]>>
            /\ \A m \in {components[1], components[2]} :
                   IF LedgerHas(prev, m)
                   THEN LedgerStock(current_inventory, m) = LedgerStock(prev, m) - N
                   ELSE ~LedgerHas(current_inventory, m)

C2_Witness ==
    /\ Processed /\ Len(arg) = 1 /\ ComboSale(arg[1])
    /\ QuantityOf(arg[1].rows[1]) = 2
    /\ LedgerHas(prev, "A") /\ LedgerHas(prev, "B")
    /\ LedgerStock(prev, "A") = MaxStock /\ LedgerStock(current_inventory, "A") = MaxStock - 2
    /\ LedgerStock(prev, "B") = 1 /\ LedgerStock(current_inventory, "B") = -1


(***************************************************************************)
(* A file of one accepted row whose SKU is in neither table, and what the  *)
(* database service returned.                                              *)
(***************************************************************************)
Unresolved(file) ==
    /\ ~StructuralError(file)
    /\ Len(file.rows) = 1
    /\ Accepted(file, file.rows[1])
    /\ file.rows[1][SkuColumnOf(file)] \notin DOMAIN combo_mapping
    /\ mapping_rows_of(file.rows[1][SkuColumnOf(file)]) = <<>>

Saved == op = "process_sales_file_to_db" /\ ret.status = "success"

DbHas(products, m) == \E r \in Range(products) : r.msku = m

\* C4 (as stated): an accepted row whose SKU is in neither table gives exactly
\* one line with MSKU 'Mapping Not Found' and Product_Type 'Unknown'; the
\* sentinel is never a key of the expander's delta map, of the combined delta
\* map or of the delta map built when the lines are saved to the database, and
\* no stock changes because of it.
C4_SentinelNeverDelta ==
    /\ (Processed /\ Len(arg) = 1 /\ Unresolved(arg[1])) =>
           /\ Len(ret.returns[1].processed_rows) = 1
           /\ ret.returns[1].processed_rows[1]["MSKU"] = NotFound
           /\ ret.returns[1].processed_rows[1]["Product_Type"] = "Unknown"
           /\ ret.returns[1].inventory_changes = <<>>
           /\ current_inventory = prev
    /\ Processed =>
           /\ \A i \in DOMAIN ret.returns : ~Has(ret.returns[i].inventory_changes, NotFound)
           /\ ~Has(ret.total_inventory_changes, NotFound)
    /\ Saved => ~Has(ret.delta, NotFound)

\* C5 (as stated): every MSKU of the delta map that the ledger has, with stock
\* C and units sold v (signed delta D = -v), has the stock C + D after the
\* reconciliation, whatever happens to the other MSKUs of the map.
C5_ExactAndIndependent ==
    /\ Processed =>
           \A i \in DOMAIN ret.total_inventory_changes :
               LET e == ret.total_inventory_changes[i]
               IN  LedgerHas(prev, e.k) =>
                       LedgerStock(current_inventory, e.k) = LedgerStock(prev, e.k) - e.v
    /\ Saved =>
           \A i \in DOMAIN ret.delta :
               LET e == ret.delta[i]
               IN  DbHas(prev, e.k) =>
                       DbStock(db.products, e.k) = DbStock(prev, e.k) - e.v

\* C6 (as stated): a failed update of one MSKU (product missing, or an
\* exception while updating it) undoes no other entry's update: every entry
\* whose own update was made keeps its new stock and its movement, and every
\* entry of the map is attempted.
C6_NoRollbackAcrossEntries ==
    /\ Processed =>
           \A i \in DOMAIN ret.total_inventory_changes :
               LET e == ret.total_inventory_changes[i]
               IN  LedgerHas(prev, e.k) =>
                       LedgerStock(current_inventory, e.k) = LedgerStock(prev, e.k) - e.v
    /\ Saved =>
           /\ Len(ret.outcomes) = Len(ret.delta)
           /\ \A i \in DOMAIN ret.outcomes :
                  ret.outcomes[i].success =>
                      /\ DbStock(db.products, ret.delta[i].k) =
                             DbStock(prev, ret.delta[i].k) - ret.delta[i].v
                      /\ \E j \in DOMAIN db.movements :
                             db.movements[j].msku = ret.delta[i].k


(***************************************************************************)
(* The ledger update of a processed batch.                                 *)
(***************************************************************************)
Updated == Processed /\ ret.inventory_update.status = "success"

NotFoundWarning(m) == [msku |-> m, kind |-> "MSKU not found", qty |-> 0]

LedgerBuffer(ledger, m) == (CHOOSE r \in Range(ledger) : r.msku = m).buffer

Classify(x, buffer) ==
    IF x < 0 THEN "Negative" ELSE IF x < buffer THEN "Low" ELSE "Normal"

StockWarnings(warnings, m) ==
    SelectSeq(warnings, LAMBDA w : w.msku = m /\ w.kind # "MSKU not found")

\* C8 (as stated): every updated MSKU is classified by its new stock x against
\* its own buffer stock (Negative when x < 0, Low when 0 <= x < buffer, Normal
\* otherwise), and the warning list holds exactly the updated MSKUs that are
\* Negative or Low.
C8_ClassifiedAgainstOwnBuffer ==
    Updated =>
        \A i \in DOMAIN ret.total_inventory_changes :
            LET m == ret.total_inventory_changes[i].k
            IN  LedgerHas(prev, m) =>
                    LET x == LedgerStock(current_inventory, m)
                        class == Classify(x, LedgerBuffer(prev, m))
                        found == StockWarnings(ret.inventory_update.warnings, m)
                    IN  CASE class = "Negative" ->
                                 found = <<[msku |-> m, kind |-> "Negative stock", qty |-> x]>>
                          [] class = "Low" ->
                                 found = <<[msku |-> m, kind |-> "Low stock", qty |-> x]>>
                          [] OTHER -> found = <<>>

(***************************************************************************)
(* The rows of an Amazon file that are shipments of sellable units.        *)
(***************************************************************************)
CellOf(row, c) == IF c \in DOMAIN row THEN row[c] ELSE None

SellableShipment(row) ==
    CellOf(row, "Event Type") = "Shipments" /\ CellOf(row, "Disposition") = "SELLABLE"

SellableShipmentsOnly(file) ==
    [file EXCEPT !.rows = SelectSeq(file.rows, SellableShipment)]

\* C9 (as stated): in every expander, a row of a file detected as Amazon gives
\* lines and quantities sold only if its Event Type is 'Shipments' and its
\* Disposition is 'SELLABLE': every line comes from such a row and the delta
\* map is that of the file with the other rows removed; the rows of the other
\* platforms are not filtered.
C9_AmazonFilterEverywhere ==
    Expanded =>
        IF detect_platform(arg.columns) = "Amazon"
        THEN /\ \A i \in DOMAIN ret.processed_rows : SellableShipment(ret.processed_rows[i])
             /\ ret.inventory_changes =
                    (IF app = "web" THEN process_sales_file(SellableShipmentsOnly(arg))
                     ELSE gui_process_sales_file(SellableShipmentsOnly(arg))).inventory_changes
        ELSE Len(ret.processed_rows) >= Len(WithoutMissingData(arg).rows)

(***************************************************************************)
(* The files of a batch that have no structural error.                     *)
(***************************************************************************)
WellFormed(file_paths) == SelectSeq(file_paths, LAMBDA file : ~StructuralError(file))

\* C10: a file that cannot be read or has no SKU column for its platform is
\* rejected whole: process_sales_file returns no lines, an empty delta map and
\* a non-empty message, the file is reported as an error, and the combined
\* delta map and the ledger after /api/process are those of the batch without
\* such files, every file of which is still processed.
C10_StructuralErrorRejectsFile ==
    Processed =>
        /\ Len(ret.file_results) = Len(arg) /\ Len(ret.returns) = Len(arg)
        /\ \A i \in DOMAIN arg :
               StructuralError(arg[i]) =>
                   /\ ret.returns[i].df_none
                   /\ ret.returns[i].processed_rows = <<>>
                   /\ ret.returns[i].inventory_changes = <<>>
                   /\ Truthy(ret.returns[i].error)
                   /\ ret.file_results[i] = [status |-> "error", message |-> ret.returns[i].error]
        /\ LET rest == WellFormed(arg)
           IN  IF rest = <<>>
               THEN ret.total_inventory_changes = <<>> /\ current_inventory = prev
               ELSE /\ ret.total_inventory_changes =
                           process_files(prev, rest).response.total_inventory_changes
                    /\ current_inventory = process_files(prev, rest).ledger
                    /\ \A i \in DOMAIN rest :
                           \E j \in DOMAIN arg :
                               /\ arg[j] = rest[i]
                               /\ ret.returns[j] = process_files(prev, rest).response.returns[i]

C10_Witness ==
    /\ Processed /\ Len(arg) = 2
    /\ arg[1].readable /\ StructuralError(arg[1]) /\ arg[1].rows # <<>>
    /\ ~StructuralError(arg[2])
    /\ ret.file_results[1].status = "error" /\ ret.file_results[2].status = "success"
    /\ ret.total_inventory_changes # <<>>
    /\ current_inventory # prev


(***************************************************************************)
(* Sales files whose 'Quantity' column has a cell that is not a number,    *)
(* and the expander and the database service applied to rows that raise.   *)
(***************************************************************************)
TextHeaderLists == {<<"SKU", "Order Item ID", "Quantity">>}

TextCellValues(h) == IF h = "Quantity" THEN {"2", "abc"} ELSE CellValues(h)

RECURSIVE TextRowsOf(_)
TextRowsOf(columns) ==
    IF columns = <<>> THEN {NoFields}
    ELSE {(Head(columns) :> v) @@ r :
              v \in TextCellValues(Head(columns)), r \in TextRowsOf(Tail(columns))}

TextFiles ==
    UNION {{[readable |-> TRUE, columns |-> h, rows |-> rs, read_error |-> None,
             quantity_dtype |-> "object"] :
                rs \in {x \in SeqsUpTo(TextRowsOf(h), MaxRows) :
                            \E i \in DOMAIN x : x[i]["Quantity"] = "abc"}} :
           h \in TextHeaderLists}

InitRowError ==
    /\ InitBatchTables
    /\ app = "web"
    /\ handle_combos = TRUE
    /\ current_inventory = NoLedger
    /\ db = EmptyDb /\ session = NoSession
    /\ op = "init" /\ arg \in TextFiles /\ ret = None /\ prev = NoLedger /\ run = NoRun

NextRowError == WebProcessSalesFile \/ ProcessSalesFileToDb

RowErrorSpec == (InitRowError \/ InitDb) /\ [][NextRowError]_vars

\* handling the row raises: in a sales file, the comparison of a str quantity
\* with 0; in a frame of lines, int() of a missing quantity
RowRaises(file, row) == quantity_is_str(file) /\ row[SkuColumnOf(file)] # NaN

WithoutRaisingRows(file) ==
    [file EXCEPT !.rows = SelectSeq(file.rows, LAMBDA row : ~RowRaises(file, row))]

LineRaises(lines, line) ==
    "Quantity" \notin DOMAIN line /\ \E i \in DOMAIN lines : "Quantity" \in DOMAIN lines[i]

\* C11 (as stated): an exception while one row is handled skips that row only:
\* the lines and the delta map are those of the file without the rows that
\* raise, and when the lines are saved to the database the failed-row counter
\* counts exactly those rows.
C11_RowExceptionSkipsRow ==
    /\ (op = "process_sales_file" /\ app = "web" /\ ~StructuralError(arg)) =>
           /\ ~ret.df_none
           /\ ret.processed_rows = process_sales_file(WithoutRaisingRows(arg)).processed_rows
           /\ ret.inventory_changes =
                  process_sales_file(WithoutRaisingRows(arg)).inventory_changes
    /\ Saved =>
           LET lines == arg.processed_df
               kept == SelectSeq(lines, LAMBDA line : ~LineRaises(lines, line))
           IN  /\ ret.failed_records = Len(lines) - Len(kept)
               /\ ret.successful_records = Len(kept)
               /\ ret.delta = db_inventory_changes(kept)


(***************************************************************************)
(* A readable file whose headers classify as Unknown.                      *)
(***************************************************************************)
UnknownPlatform(file) == file.readable /\ detect_platform(file.columns) = "Unknown"

UnknownMessage == "No SKU column found for platform Unknown"

\* C12: a file whose headers classify as Unknown gets no SKU column, even
\* when it has a column named SKU; it is reported with the 'No SKU column
\* found' message, gives no lines and no quantities sold, and the files after
\* it in the batch are still processed.
C12_UnknownPlatformNotFatal ==
    Processed =>
        /\ ret.status = "success"
        /\ Len(ret.file_results) = Len(arg)
        /\ \A i \in DOMAIN arg :
               UnknownPlatform(arg[i]) =>
                   /\ get_sku_column(arg[i].columns, "Unknown") = None
                   /\ ret.returns[i] = [df_none |-> TRUE, processed_rows |-> <<>>,
                                        inventory_changes |-> <<>>, error |-> UnknownMessage]
                   /\ ret.file_results[i] = [status |-> "error", message |-> UnknownMessage]
                   /\ \A j \in DOMAIN arg :
                          (j > i /\ ~StructuralError(arg[j])) =>
                              ret.returns[j] = process_sales_file(arg[j])

C12_Witness ==
    /\ Processed /\ Len(arg) = 2
    /\ UnknownPlatform(arg[1]) /\ HasColumn(arg[1], "SKU")
    /\ Len(arg[1].rows) = 1 /\ arg[1].rows[1]["SKU"] = "S1"
    /\ mapping_rows_of("S1") # <<>>
    /\ ret.file_results[1].status = "error"
    /\ ret.file_results[2].status = "success"
    /\ ret.inventory_update.status = "success"


(***************************************************************************)
(* One run of the web application: the resolver and the expander are       *)
(* called again and again on the tables loaded at start.  prev is the list *)
(* of the resolver's calls so far, each with the outcome it returned.      *)
(***************************************************************************)
MaxCalls == 3

RunFiles == FilesOf({<<"SKU", "Order Item ID", "Quantity">>}, MaxBatchRows)

InitRun ==
    /\ InitTables
    /\ app = "web"
    /\ handle_combos = TRUE
    /\ current_inventory = NoLedger
    /\ db = EmptyDb /\ session = NoSession
    /\ op = "init" /\ arg = None /\ ret = None /\ prev = <<>> /\ run = NoRun

\* a resolver that takes the entry out of the combo table (dict.pop)
RunMapSkuPop ==
    /\ Len(prev) < MaxCalls
    /\ \E sku \in SKUs :
           /\ op' = "map_sku_to_msku"
           /\ arg' = sku
           /\ ret' = map_sku_to_msku(sku)
           /\ prev' = Append(prev, [sku |-> sku, outcome |-> map_sku_to_msku(sku)])
           /\ combo_mapping' = [k \in DOMAIN combo_mapping \ {sku} |-> combo_mapping[k]]
    /\ UNCHANGED <<app, mapping_data, current_inventory, handle_combos, db, session, run>>

RunMapSku ==
    /\ Len(prev) < MaxCalls
    /\ \E sku \in SKUs :
           /\ op' = "map_sku_to_msku"
           /\ arg' = sku
           /\ ret' = map_sku_to_msku(sku)
           /\ prev' = Append(prev, [sku |-> sku, outcome |-> map_sku_to_msku(sku)])
    /\ UNCHANGED <<app, mapping_data, combo_mapping, current_inventory, handle_combos,
                   db, session, run>>

RunProcessSalesFile ==
    /\ \E file \in RunFiles :
           /\ op' = "process_sales_file"
           /\ arg' = file
           /\ ret' = process_sales_file(file)
    /\ UNCHANGED <<app, mapping_data, combo_mapping, current_inventory, handle_combos,
                   db, session, prev, run>>

NextRun == RunMapSku \/ RunProcessSalesFile

RunSpec == InitRun /\ [][NextRun]_vars

RECURSIVE sku_mappings_from(_, _, _)
sku_mappings_from(mappings_df, i, rows) ==
    IF i > Len(mappings_df) THEN rows
    ELSE sku_mappings_from(mappings_df, i + 1,
             IF \E j \in DOMAIN rows :
                    rows[j].sku = mappings_df[i].sku /\ rows[j].msku = mappings_df[i].msku
             THEN rows
             ELSE Append(rows, [sku |-> mappings_df[i].sku, msku |-> mappings_df[i].msku]))

migrate_sku_mappings(mappings_df) == sku_mappings_from(mappings_df, 1, <<>>)

db_map_sku_to_msku(sku_mappings, sku) ==
    LET found == SelectSeq(sku_mappings, LAMBDA r : r.sku = sku)
    IN  IF found # <<>> THEN found[1].msku ELSE None

(***************************************************************************)
(* The three resolvers applied to one SKU.                                 *)
(***************************************************************************)
InitFirstMatch ==
    /\ InitTables
    /\ app \in {"web", "gui", "db"}
    /\ handle_combos \in IF app = "gui" THEN BOOLEAN ELSE {TRUE}
    /\ current_inventory = NoLedger
    /\ db = IF app = "db"
            THEN ("sku_mappings" :> migrate_sku_mappings(mapping_data)) @@ EmptyDb
            ELSE EmptyDb
    /\ session = NoSession
    /\ op = "init" /\ arg \in SKUs /\ ret = None /\ prev = NoLedger /\ run = NoRun

DbMapSku ==
    /\ app = "db" /\ op = "init"
    /\ op' = "map_sku_to_msku"
    /\ ret' = db_map_sku_to_msku(db.sku_mappings, arg)
    /\ UNCHANGED <<app, mapping_data, combo_mapping, current_inventory, handle_combos,
                   db, session, arg, prev, run>>

NextFirstMatch == WebMapSku \/ GuiMapSku \/ DbMapSku

FirstMatchSpec == InitFirstMatch /\ [][NextFirstMatch]_vars

\* the MSKUs of the mapping rows of a SKU, in table order
MskusOf(sku) ==
    LET RECURSIVE from(_)
        from(i) == IF i > Len(mapping_data) THEN <<>>
                   ELSE (IF mapping_data[i].sku = sku THEN <<mapping_data[i].msku>> ELSE <<>>)
                            \o from(i + 1)
    IN  from(1)

\* C14: for a SKU that is not a combo, every resolver returns the MSKU of the
\* first mapping row of that SKU in table order, also when later rows of the
\* SKU name other MSKUs, and returns the unresolved outcome only when the SKU
\* has no mapping row.
C14_FirstMatchWins ==
    (op = "map_sku_to_msku" /\ arg \notin DOMAIN combo_mapping) =>
        LET mskus == MskusOf(arg)
        IN  IF app = "db"
            THEN ret = (IF mskus # <<>> THEN mskus[1] ELSE None)
            ELSE ret = (IF mskus # <<>> THEN [type |-> "single", msku |-> mskus[1]]
                        ELSE [type |-> "not_found", msku |-> NotFound])

C14_Witness ==
    /\ op = "map_sku_to_msku" /\ app = "web"
    /\ arg \notin DOMAIN combo_mapping
    /\ MskusOf(arg) = <<"B", "A">>
    /\ ret = [type |-> "single", msku |-> "B"]


(***************************************************************************)
(* Mapping entries that carry the platform they belong to                  *)
(* (SKUMapping.platform), and the web expander applied to one sales file   *)
(* with such a table.  The resolver selects the rows by their sku alone.   *)
(***************************************************************************)
Platforms == {"Amazon", "Flipkart", "Meesho"}

PlatformMappingRows == [sku : SKUs, msku : MSKUs, platform : Platforms]

PlatformHeaderLists ==
    { <<"SKU", "Order Item ID", "Quantity">>,
      <<"SKU", "Sub Order No", "Quantity">> }

InitPlatform ==
    /\ mapping_data \in SeqsUpTo(PlatformMappingRows, MaxMappingRows)
    /\ combo_mapping \in {create_combo_mapping(sheet) : sheet \in ComboSheets}
    /\ app = "web"
    /\ handle_combos = TRUE
    /\ current_inventory = NoLedger
    /\ db = EmptyDb /\ session = NoSession
    /\ op = "init" /\ arg \in FilesOf(PlatformHeaderLists, MaxBatchRows)
    /\ ret = None /\ prev = NoLedger /\ run = NoRun

NextPlatform == WebProcessSalesFile

PlatformSpec == InitPlatform /\ [][NextPlatform]_vars

\* the mapping entries of a SKU under a platform, in table order
EntriesOf(sku, platform) ==
    SelectSeq(mapping_data, LAMBDA r : r.sku = sku /\ r.platform = platform)

\* C15 (as stated): an accepted row whose SKU is not a combo resolves to
\* Single only from a mapping entry of the file's detected platform: with no
\* entry under that platform its line is 'Mapping Not Found' / 'Unknown', and
\* otherwise its line carries the MSKU of the first entry under that platform.
C15_ResolutionKeyedByPlatform ==
    (Expanded /\ Len(arg.rows) = 1 /\ Accepted(arg, arg.rows[1])
        /\ arg.rows[1][SkuColumnOf(arg)] \notin DOMAIN combo_mapping) =>
        LET entries == EntriesOf(arg.rows[1][SkuColumnOf(arg)], detect_platform(arg.columns))
        IN  /\ Len(ret.processed_rows) = 1
            /\ IF entries = <<>>
               THEN /\ ret.processed_rows[1]["MSKU"] = NotFound
                    /\ ret.processed_rows[1]["Product_Type"] = "Unknown"
                    /\ ret.inventory_changes = <<>>
               ELSE /\ ret.processed_rows[1]["MSKU"] = entries[1].msku
                    /\ ret.processed_rows[1]["Product_Type"] = "Single"


(***************************************************************************)
(* process_files and WMSProcessor.update_inventory step by step.  run[r]   *)
(* holds the local variables of the handler of request r: pc is where it   *)
(* stands, i the file of the loop of process_files, j the entry of the     *)
(* loop of update_inventory, current_qty the stock it read for that entry, *)
(* updates the number of calls of update_inventory it has made.            *)
(***************************************************************************)
Request(file_paths) ==
    [kind |-> "web", pc |-> "received", file_paths |-> file_paths, i |-> 1,
     results |-> <<>>, returns |-> <<>>, total_inventory_changes |-> <<>>,
     j |-> 1, current_qty |-> 0, updated_items |-> 0, warnings |-> <<>>,
     inventory_update |-> [status |-> None], updates |-> 0,
     response |-> [status |-> None]]

\* lines 360-367
Receive(r) ==
    /\ run[r].kind = "web" /\ run[r].pc = "received"
    /\ run' = [run EXCEPT ![r] =
                  IF @.file_paths = <<>>
                  THEN [@ EXCEPT !.pc = "reported",
                                 !.response = [status |-> "error",
                                               message |-> "No files to process"]]
                  ELSE [@ EXCEPT !.pc = "files"]]
    /\ UNCHANGED <<app, mapping_data, combo_mapping, current_inventory, handle_combos,
                   db, session, op, arg, ret, prev>>

\* a loop turn that gives the batch up at the first file that yields nothing
ProcessFileAbort(r) ==
    /\ run[r].kind = "web" /\ run[r].pc = "files" /\ run[r].i <= Len(run[r].file_paths)
    /\ \E returned \in {process_sales_file(run[r].file_paths[run[r].i])} :
       \E st \in {file_outcome([results |-> run[r].results, returns |-> run[r].returns,
                                 total_inventory_changes |->
                                     run[r].total_inventory_changes], returned)} :
           IF st.results[Len(st.results)].status = "error"
           THEN run' = [run EXCEPT ![r].pc = "reported",
                                   ![r].response = st.results[Len(st.results)]]
           ELSE run' = [run EXCEPT ![r].results = st.results,
                                   ![r].returns = st.returns,
                                   ![r].total_inventory_changes = st.total_inventory_changes,
                                   ![r].i = @ + 1]
    /\ UNCHANGED <<app, mapping_data, combo_mapping, current_inventory, handle_combos,
                   db, session, op, arg, ret, prev>>

\* a loop turn that takes the quantities sold of each file off the ledger as
\* soon as the file is expanded
ProcessFileApplying(r) ==
    /\ run[r].kind = "web" /\ run[r].pc = "files" /\ run[r].i <= Len(run[r].file_paths)
    /\ \E returned \in {process_sales_file(run[r].file_paths[run[r].i])} :
       \E st \in {file_outcome([results |-> run[r].results, returns |-> run[r].returns,
                                 total_inventory_changes |->
                                     run[r].total_inventory_changes], returned)} :
           /\ run' = [run EXCEPT ![r].results = st.results,
                                 ![r].returns = st.returns,
                                 ![r].total_inventory_changes = st.total_inventory_changes,
                                 ![r].i = @ + 1]
           /\ current_inventory' =
                  update_inventory(current_inventory, returned.inventory_changes).ledger
    /\ UNCHANGED <<app, mapping_data, combo_mapping, handle_combos,
                   db, session, op, arg, ret, prev>>

\* lines 369-406, one turn of the loop
ProcessFile(r) ==
    /\ run[r].kind = "web" /\ run[r].pc = "files" /\ run[r].i <= Len(run[r].file_paths)
    /\ \E returned \in {process_sales_file(run[r].file_paths[run[r].i])} :
       \E st \in {file_outcome([results |-> run[r].results, returns |-> run[r].returns,
                                 total_inventory_changes |->
                                     run[r].total_inventory_changes], returned)} :
           run' = [run EXCEPT ![r].results = st.results,
                              ![r].returns = st.returns,
                              ![r].total_inventory_changes = st.total_inventory_changes,
                              ![r].i = @ + 1]
    /\ UNCHANGED <<app, mapping_data, combo_mapping, current_inventory, handle_combos,
                   db, session, op, arg, ret, prev>>

\* line 409 and lines 208-232
CallUpdateInventory(r) ==
    /\ run[r].kind = "web" /\ run[r].pc = "files" /\ run[r].i > Len(run[r].file_paths)
    /\ run' = [run EXCEPT ![r] =
                  IF @.total_inventory_changes = <<>>
                  THEN [@ EXCEPT !.pc = "respond", !.updates = @ + 1,
                                 !.inventory_update =
                                     [status |-> "warning",
                                      message |-> "No inventory changes to apply"]]
                  ELSE [@ EXCEPT !.pc = "update", !.updates = @ + 1, !.j = 1,
                                 !.updated_items = 0, !.warnings = <<>>]]
    /\ UNCHANGED <<app, mapping_data, combo_mapping, current_inventory, handle_combos,
                   db, session, op, arg, ret, prev>>

\* a read that takes the stock from the ledger as it was loaded
ReadStockAsLoaded(r) ==
    /\ run[r].kind = "web" /\ run[r].pc = "update"
    /\ run[r].j <= Len(run[r].total_inventory_changes)
    /\ LET msku == run[r].total_inventory_changes[run[r].j].k
       IN  run' = [run EXCEPT ![r] =
                      IF mask_any(prev, msku)
                      THEN [@ EXCEPT !.pc = "write",
                                     !.current_qty = first_match(prev, msku).stock]
                      ELSE [@ EXCEPT !.j = @ + 1,
                                     !.warnings = Append(@, [msku |-> msku,
                                                             kind |-> "MSKU not found",
                                                             qty |-> 0])]]
    /\ UNCHANGED <<app, mapping_data, combo_mapping, current_inventory, handle_combos,
                   db, session, op, arg, ret, prev>>

\* lines 234-238 and 247-248: the mask and the read of the stock
ReadStock(r) ==
    /\ run[r].kind = "web" /\ run[r].pc = "update"
    /\ run[r].j <= Len(run[r].total_inventory_changes)
    /\ LET msku == run[r].total_inventory_changes[run[r].j].k
       IN  run' = [run EXCEPT ![r] =
                      IF mask_any(current_inventory, msku)
                      THEN [@ EXCEPT !.pc = "write",
                                     !.current_qty = first_match(current_inventory, msku).stock]
                      ELSE [@ EXCEPT !.j = @ + 1,
                                     !.warnings = Append(@, [msku |-> msku,
                                                             kind |-> "MSKU not found",
                                                             qty |-> 0])]]
    /\ UNCHANGED <<app, mapping_data, combo_mapping, current_inventory, handle_combos,
                   db, session, op, arg, ret, prev>>

\* lines 238-246: the write of the new stock
WriteStock(r) ==
    /\ run[r].kind = "web" /\ run[r].pc = "write"
    /\ LET msku == run[r].total_inventory_changes[run[r].j].k
           new_qty == run[r].current_qty - run[r].total_inventory_changes[run[r].j].v
       IN  /\ current_inventory' = set_stock(current_inventory, msku, new_qty)
           /\ run' = [run EXCEPT ![r].pc = "update", ![r].j = @ + 1,
                                 ![r].updated_items = @ + 1,
                                 ![r].warnings = @ \o stock_warning(msku, new_qty)]
    /\ UNCHANGED <<app, mapping_data, combo_mapping, handle_combos,
                   db, session, op, arg, ret, prev>>

\* lines 250-255
ReturnUpdateInventory(r) ==
    /\ run[r].kind = "web" /\ run[r].pc = "update"
    /\ run[r].j > Len(run[r].total_inventory_changes)
    /\ run' = [run EXCEPT ![r].pc = "respond",
                          ![r].inventory_update =
                              [status |-> "success", warnings |-> run[r].warnings,
                               updated_items |-> run[r].updated_items]]
    /\ UNCHANGED <<app, mapping_data, combo_mapping, current_inventory, handle_combos,
                   db, session, op, arg, ret, prev>>

\* lines 411-416
Respond(r) ==
    /\ run[r].kind = "web" /\ run[r].pc = "respond"
    /\ run' = [run EXCEPT ![r].pc = "reported",
                          ![r].response =
                              [status |-> "success",
                               file_results |-> run[r].results,
                               returns |-> run[r].returns,
                               total_inventory_changes |-> run[r].total_inventory_changes,
                               inventory_update |-> run[r].inventory_update,
                               total_changes |-> Len(run[r].total_inventory_changes)]]
    /\ UNCHANGED <<app, mapping_data, combo_mapping, current_inventory, handle_combos,
                   db, session, op, arg, ret, prev>>


(***************************************************************************)
(* DatabaseService.process_sales_file_to_db step by step: the rows are     *)
(* recorded one by one, then the entries of inventory_changes are applied  *)
(* one by one, then the log is added and the session committed.            *)
(***************************************************************************)
DbRequest(processed_df, platform, fault) ==
    [kind |-> "db", pc |-> "rows", processed_df |-> processed_df,
     platform |-> platform, fault |-> fault, i |-> 1,
     inventory_changes |-> <<>>, successful_records |-> 0, failed_records |-> 0,
     j |-> 1, outcomes |-> <<>>, response |-> [status |-> None]]

\* lines 136-170, one turn of the loop
DbRecordRow(r) ==
    /\ run[r].kind = "db" /\ run[r].pc = "rows" /\ run[r].i <= Len(run[r].processed_df)
    /\ LET st == db_row_step(frame_columns(run[r].processed_df), run[r].platform,
                             run[r].processed_df[run[r].i],
                             [session |-> session,
                              inventory_changes |-> run[r].inventory_changes,
                              successful_records |-> run[r].successful_records,
                              failed_records |-> run[r].failed_records])
       IN  /\ session' = st.session
           /\ run' = [run EXCEPT ![r].inventory_changes = st.inventory_changes,
                                 ![r].successful_records = st.successful_records,
                                 ![r].failed_records = st.failed_records,
                                 ![r].i = @ + 1]
    /\ UNCHANGED <<app, mapping_data, combo_mapping, current_inventory, handle_combos,
                   db, op, arg, ret, prev>>

\* lines 173-182, one turn of the loop
DbUpdateInventory(r) ==
    /\ run[r].kind = "db" /\ run[r].pc = "rows" /\ run[r].i > Len(run[r].processed_df)
    /\ run[r].j <= Len(run[r].inventory_changes)
    /\ LET e == run[r].inventory_changes[run[r].j]
           u == db_update_inventory(db, session, e.k, -e.v, "sales.csv",
                                    run[r].j = run[r].fault)
       IN  /\ session' = u.session
           /\ run' = [run EXCEPT ![r].j = @ + 1,
                                 ![r].outcomes = Append(@, [msku |-> e.k,
                                                            success |-> u.success,
                                                            message |-> u.message])]
    /\ UNCHANGED <<app, mapping_data, combo_mapping, current_inventory, handle_combos,
                   db, op, arg, ret, prev>>

\* lines 185-217
DbCommit(r) ==
    /\ run[r].kind = "db" /\ run[r].pc = "rows" /\ run[r].i > Len(run[r].processed_df)
    /\ run[r].j > Len(run[r].inventory_changes)
    /\ LET log == [file_name |-> "sales.csv", platform |-> run[r].platform,
                   total_records |-> Len(run[r].processed_df),
                   successful_records |-> run[r].successful_records,
                   failed_records |-> run[r].failed_records,
                   status |-> log_status(run[r].successful_records,
                                         run[r].failed_records)]
           logged == [session EXCEPT !.logs = Append(@, log)]
       IN  IF flush_raises(logged)
           THEN /\ db' = db
                /\ session' = rollback(db)
                /\ run' = [run EXCEPT ![r].pc = "reported",
                                      ![r].response = [status |-> "error",
                                                       message |-> "flush failed"]]
           ELSE LET done == flush(logged)
                IN  /\ db' = [products |-> done.products, movements |-> done.movements,
                              sales |-> done.sales, logs |-> done.logs]
                    /\ session' = begin_session(db')
                    /\ run' = [run EXCEPT ![r].pc = "reported",
                                   ![r].response =
                                       [status |-> "success",
                                        total_records |-> Len(run[r].processed_df),
                                        successful_records |-> run[r].successful_records,
                                        failed_records |-> run[r].failed_records,
                                        inventory_changes |-> Len(run[r].inventory_changes),
                                        delta |-> run[r].inventory_changes,
                                        outcomes |-> run[r].outcomes]]
    /\ UNCHANGED <<app, mapping_data, combo_mapping, current_inventory, handle_combos,
                   op, arg, ret, prev>>

(***************************************************************************)
(* The application serving one request step by step: a batch of files      *)
(* arrives at the web handler, or the lines of one file at the database    *)
(* service.                                                                *)
(***************************************************************************)
StepLedgers == {ledger \in Ledgers : \A i \in DOMAIN ledger : ledger[i].buffer = 0}

InitStepWeb ==
    /\ InitBatchTables
    /\ app = "web"
    /\ handle_combos = TRUE
    /\ current_inventory \in StepLedgers
    /\ db = EmptyDb /\ session = begin_session(EmptyDb)
    /\ op = "init" /\ arg = None /\ ret = None
    /\ prev = current_inventory
    /\ run = NoRun

InitStepDb ==
    /\ InitBatchTables
    /\ app = "db"
    /\ handle_combos = TRUE
    /\ current_inventory = NoLedger
    /\ \E ledger \in StepLedgers :
           db = [EmptyDb EXCEPT !.products = migrate_products(ledger)]
    /\ session = begin_session(db)
    /\ op = "init" /\ arg = None /\ ret = None
    /\ prev = db.products
    /\ run = NoRun

InitStep == InitStepWeb \/ InitStepDb

\* POST /api/process with a list of files
Arrive ==
    /\ app = "web" /\ op = "init"
    /\ op' = "serving"
    /\ \E file_paths \in Batches : run' = <<Request(file_paths)>>
    /\ UNCHANGED <<app, mapping_data, combo_mapping, current_inventory, handle_combos,
                   db, session, arg, ret, prev>>

\* a call of process_sales_file_to_db with the lines of one file
DbArrive ==
    /\ app = "db" /\ op = "init"
    /\ op' = "serving"
    /\ \E file \in DbFiles :
           LET lines == process_sales_file(file).processed_rows
           IN  \E fault \in 0 .. Len(db_inventory_changes(lines)) :
                   run' = <<DbRequest(lines, detect_platform(file.columns), fault)>>
    /\ UNCHANGED <<app, mapping_data, combo_mapping, current_inventory, handle_combos,
                   db, session, arg, ret, prev>>

WebStep ==
    \E r \in DOMAIN run :
        \/ Receive(r)
        \/ ProcessFile(r)
        \/ CallUpdateInventory(r)
        \/ ReadStock(r)
        \/ WriteStock(r)
        \/ ReturnUpdateInventory(r)
        \/ Respond(r)

DbStep ==
    \E r \in DOMAIN run :
        \/ DbRecordRow(r)
        \/ DbUpdateInventory(r)
        \/ DbCommit(r)

ServeStep == WebStep \/ DbStep

NextStep == Arrive \/ DbArrive \/ ServeStep

StepSpec == InitStep /\ [][NextStep]_vars

\* the same application with the tables of one workbook: S1 is an alias of
\* A, and CX is a combo of A and B
ServeTables ==
    /\ mapping_data = <<[sku |-> "S1", msku |-> "A"]>>
    /\ combo_mapping = create_combo_mapping(<<[Combo |-> "CX", SKU |-> <<"A", "B">>]>>)

InitServe ==
    /\ ServeTables
    /\ app \in {"web", "db"}
    /\ handle_combos = TRUE
    /\ \E ledger \in StepLedgers :
           /\ current_inventory = IF app = "web" THEN ledger ELSE NoLedger
           /\ db = IF app = "web" THEN EmptyDb
                   ELSE [EmptyDb EXCEPT !.products = migrate_products(ledger)]
           /\ prev = ledger
    /\ session = begin_session(db)
    /\ op = "init" /\ arg = None /\ ret = None
    /\ run = NoRun

\* a handler that was called runs on until it returns
FairStepSpec == InitServe /\ [][NextStep]_vars /\ WF_vars(ServeStep)

Reported(r) == run[r].pc = "reported"

AllReported == \A r \in DOMAIN run : Reported(r)

\* the report of a batch: one result per file and the inventory-update result
BatchReport(r) ==
    /\ "file_results" \in DOMAIN run[r].response
    /\ Len(run[r].response.file_results) = Len(run[r].file_paths)
    /\ "inventory_update" \in DOMAIN run[r].response
    /\ run[r].response.inventory_update.status \in {"success", "warning"}

DbReport(r) == run[r].response.status \in {"success", "error"}

\* no step goes back in a loop or leaves the reported state
NoRetry ==
    \A r \in DOMAIN run :
        /\ run'[r].i \in {run[r].i, run[r].i + 1}
        /\ run'[r].j \in {run[r].j, run[r].j + 1}
        /\ Reported(r) => run'[r] = run[r]

\* C16 (as stated): for any list of files the run reaches Reported, and the
\* report returned holds one result per file and the inventory-update result.
C16_EveryRunReportsEveryFile ==
    /\ [](run # NoRun => <>AllReported)
    /\ [](\A r \in DOMAIN run :
              Reported(r) => IF run[r].kind = "web" THEN BatchReport(r) ELSE DbReport(r))

\* C16: every run reaches Reported without going back over a file, a row or an
\* entry; for a list of at least one file the report holds one result per file
\* and the inventory-update result, whatever happened to the files; for the
\* empty list the report is the error 'No files to process' and nothing else.
C16_EveryRunTerminates ==
    /\ [](run # NoRun => <>AllReported)
    /\ [](\A r \in DOMAIN run :
              Reported(r) =>
                  IF run[r].kind = "db" THEN DbReport(r)
                  ELSE IF run[r].file_paths # <<>> THEN BatchReport(r)
                  ELSE run[r].response = [status |-> "error",
                                          message |-> "No files to process"])
    /\ [][NoRetry]_vars

\* a batch of two files, the first of them unreadable, reported in full
C16_Witness ==
    /\ app = "web" /\ run # NoRun /\ Reported(1)
    /\ Len(run[1].file_paths) = 2
    /\ BatchReport(1)
    /\ run[1].response.file_results[1].status = "error"
    /\ run[1].response.file_results[2].status = "success"
    /\ run[1].response.inventory_update.status = "success"


\* the units of msku sold in the first n files of the batch that were
\* processed successfully
RECURSIVE SoldInFiles(_, _, _)
SoldInFiles(q, msku, n) ==
    IF n = 0 THEN 0
    ELSE SoldInFiles(q, msku, n - 1)
         + (IF q.results[n].status = "success" /\ Has(q.returns[n].inventory_changes, msku)
            THEN Get(q.returns[n].inventory_changes, msku) ELSE 0)

\* the units of msku in the first n lines that were recorded
RECURSIVE SoldInLines(_, _, _)
SoldInLines(q, msku, n) ==
    IF n = 0 THEN 0
    ELSE SoldInLines(q, msku, n - 1)
         + (IF ~int_raises(frame_columns(q.processed_df), q.processed_df[n])
               /\ frame_get(frame_columns(q.processed_df), q.processed_df[n], "MSKU", "") = msku
            THEN row_get(q.processed_df[n], "Quantity", 1) ELSE 0)

AllFilesDone(r) ==
    IF run[r].kind = "web"
    THEN run[r].pc # "received" /\ run[r].i > Len(run[r].file_paths)
    ELSE run[r].i > Len(run[r].processed_df)

\* the map that is reconciled holds, for each MSKU, the sum over the batch
SumOfDeltas(r) ==
    IF run[r].kind = "web"
    THEN /\ \A e \in Range(run[r].total_inventory_changes) :
                e.v = SoldInFiles(run[r], e.k, Len(run[r].results))
         /\ \A n \in DOMAIN run[r].results :
                run[r].results[n].status = "success" =>
                    Keys(run[r].returns[n].inventory_changes)
                        \subseteq Keys(run[r].total_inventory_changes)
    ELSE \A e \in Range(run[r].inventory_changes) :
             e.v = SoldInLines(run[r], e.k, Len(run[r].processed_df))

StockValues == <<current_inventory, session.products, db.products>>

\* C17: no stock value changes before every file of the batch (every line of
\* the file) has been resolved and accumulated; update_inventory is called at
\* most once, exactly once by the time a non-empty batch is reported; the map
\* it works on is the per-MSKU sum of the quantities of the files processed
\* successfully, and the ledger reported is the one before the batch less
\* that sum.
C17_ReconcileOnceAfterAllFiles ==
    /\ [](\A r \in DOMAIN run :
              /\ AllFilesDone(r) => SumOfDeltas(r)
              /\ run[r].kind = "web" =>
                     /\ run[r].updates <= 1
                     /\ run[r].pc \in {"update", "write", "respond"} => run[r].updates = 1
                     /\ (Reported(r) /\ run[r].file_paths # <<>>) =>
                            /\ run[r].updates = 1
                            /\ \A k \in DOMAIN current_inventory :
                                   current_inventory[k].stock =
                                       prev[k].stock
                                       - SoldInFiles(run[r], current_inventory[k].msku,
                                                     Len(run[r].results))
              /\ run[r].kind = "db" =>
                     /\ run[r].j <= Len(run[r].inventory_changes) + 1
                     /\ Len(run[r].outcomes) = run[r].j - 1)
    /\ [][StockValues' # StockValues =>
              \E r \in DOMAIN run : AllFilesDone(r) /\ run'[r].i = run[r].i]_vars

\* two files sold the same MSKU and the ledger went down by the sum, once
C17_Witness ==
    /\ app = "web" /\ run # NoRun /\ Reported(1)
    /\ Len(run[1].file_paths) = 2
    /\ \A n \in 1 .. 2 : run[1].response.file_results[n].status = "success"
    /\ \E k \in DOMAIN current_inventory :
           /\ Has(run[1].returns[1].inventory_changes, current_inventory[k].msku)
           /\ Has(run[1].returns[2].inventory_changes, current_inventory[k].msku)
           /\ current_inventory[k].stock < prev[k].stock


(***************************************************************************)
(* The delta map against the lines of the same file.  inventory_changes    *)
(* holds the units sold; the reconcilers take them off the stock, so the   *)
(* signed delta of an MSKU is the negated entry.                           *)
(***************************************************************************)
Delta(inventory_changes, msku) == -Get(inventory_changes, msku)

Counted(line) == line["Product_Type"] \in {"Single", "Combo_Component"}

\* the quantities of the first n lines that carry msku and are counted
RECURSIVE LineQuantities(_, _, _)
LineQuantities(lines, msku, n) ==
    IF n = 0 THEN 0
    ELSE LineQuantities(lines, msku, n - 1)
         + (IF lines[n]["MSKU"] = msku /\ Counted(lines[n])
            THEN QuantityOf(lines[n]) ELSE 0)

\* C18: after a file is expanded, the delta of every MSKU is the negated sum
\* of the quantities of the lines that carry it and are tagged Single or
\* Combo_Component (a line without a 'Quantity' cell counts 1), and an MSKU
\* with no such line has no entry in the delta map.
C18_DeltaConservation ==
    Expanded =>
        \A msku \in MSKUs \cup {NotFound} \cup Keys(ret.inventory_changes) :
            LET lines == ret.processed_rows
            IN  IF \E n \in DOMAIN lines : lines[n]["MSKU"] = msku /\ Counted(lines[n])
                THEN /\ Has(ret.inventory_changes, msku)
                     /\ Delta(ret.inventory_changes, msku)
                            = -LineQuantities(lines, msku, Len(lines))
                ELSE ~Has(ret.inventory_changes, msku)

\* two rows of one file gave a Single line and a Combo_Component line of the
\* same MSKU, and an Unknown line may stand beside them
C18_Witness ==
    /\ Expanded
    /\ \E n, m \in DOMAIN ret.processed_rows :
           /\ ret.processed_rows[n]["Product_Type"] = "Single"
           /\ ret.processed_rows[m]["Product_Type"] = "Combo_Component"
           /\ ret.processed_rows[n]["MSKU"] = ret.processed_rows[m]["MSKU"]
           /\ Delta(ret.inventory_changes, ret.processed_rows[n]["MSKU"])
                  = - QuantityOf(ret.processed_rows[n]) - QuantityOf(ret.processed_rows[m])
    /\ ~Has(ret.inventory_changes, "B")


(***************************************************************************)
(* Two /api/process requests served at once by the threads of the          *)
(* development server, both working on the ledger of the one wms_processor.*)
(* A thread may be switched out between any two steps.                     *)
(***************************************************************************)
ConcFiles == FilesOf({<<"SKU", "Order Item ID", "Quantity">>}, MaxBatchRows)

InitConc ==
    /\ ServeTables
    /\ app = "web"
    /\ handle_combos = TRUE
    /\ current_inventory \in StepLedgers
    /\ db = EmptyDb /\ session = begin_session(EmptyDb)
    /\ op = "serving" /\ arg = None /\ ret = None
    /\ prev = current_inventory
    /\ \E f1, f2 \in ConcFiles : run = <<Request(<<f1>>), Request(<<f2>>)>>

ConcSpec == InitConc /\ [][WebStep]_vars

\* request r is inside the loop of update_inventory
Reconciling(r) == run[r].pc \in {"update", "write"}

OneAtATime == \A r1, r2 \in DOMAIN run : (Reconciling(r1) /\ Reconciling(r2)) => r1 = r2

\* the units of msku that request r takes off the ledger
SoldBy(r, msku) ==
    IF Has(run[r].total_inventory_changes, msku)
    THEN Get(run[r].total_inventory_changes, msku) ELSE 0

\* C19: when the two reconciliations never overlap, every stock ends at the
\* stock before less the units of both batches; in every interleaving it ends
\* at that value or at the stock before less the units of one batch only.
C19_NoMutualExclusion ==
    /\ ([]OneAtATime) =>
           [](AllReported =>
                  \A k \in DOMAIN current_inventory :
                      current_inventory[k].stock =
                          prev[k].stock - SoldBy(1, current_inventory[k].msku)
                                        - SoldBy(2, current_inventory[k].msku))
    /\ [](AllReported =>
              \A k \in DOMAIN current_inventory :
                  \E units \in {SoldBy(1, current_inventory[k].msku)
                                    + SoldBy(2, current_inventory[k].msku),
                                SoldBy(1, current_inventory[k].msku),
                                SoldBy(2, current_inventory[k].msku)} :
                      current_inventory[k].stock = prev[k].stock - units)

\* a lost update: both batches sold units of A, both are reported as updated,
\* and the stock of A went down by the units of one of them only
C19_Witness ==
    /\ op = "serving" /\ Len(run) = 2 /\ AllReported
    /\ \E k \in DOMAIN current_inventory :
           /\ current_inventory[k].msku = "A"
           /\ SoldBy(1, "A") = 2 /\ SoldBy(2, "A") = 1
           /\ prev[k].stock = MaxStock
           /\ current_inventory[k].stock = MaxStock - 1
    /\ \A r \in 1 .. 2 : run[r].response.inventory_update.status = "success"
                         /\ run[r].response.inventory_update.updated_items >= 1


(***************************************************************************)
(* The operations that may follow one another on the running application:  *)
(* batches and saves (the reconcilers), expansion of a file alone,         *)
(* dashboard reads, the inventory export, and a re-run of the migration    *)
(* of the workbook into the database.  prev is the 'Current Inventory '    *)
(* sheet of the workbook.                                                  *)
(***************************************************************************)
MaxServed == 3
DashboardLowStock == 10

\* pd.to_numeric(errors='coerce').fillna(0) of one cell: a number is kept,
\* anything else becomes 0
to_numeric_fillna(v) == IF v \in Int THEN v ELSE 0

\* WMSProcessor.get_dashboard_data: the stock column is written back coerced
get_dashboard_data(ledger) ==
    LET coerced == [i \in DOMAIN ledger |->
                        [ledger[i] EXCEPT !.stock = to_numeric_fillna(@)]]
    IN  [ledger |-> coerced,
         data |-> [total_products |-> Len(ledger),
                   total_combos |-> Cardinality(DOMAIN combo_mapping),
                   total_mappings |-> Len(mapping_data),
                   low_stock_count |->
                       Cardinality({i \in DOMAIN coerced :
                                        coerced[i].stock < DashboardLowStock}),
                   negative_stock_count |->
                       Cardinality({i \in DOMAIN coerced : coerced[i].stock < 0})]]

\* DatabaseMigration.migrate_products on a database that has products: the
\* product of a sheet row that exists gets the sheet's opening stock as its
\* current stock again, a row without product gets a new one
RECURSIVE remigrate_products(_, _, _)
remigrate_products(products, inventory_df, i) ==
    IF i > Len(inventory_df) THEN products
    ELSE LET row == inventory_df[i]
             p == product_index(products, row.msku)
         IN  remigrate_products(
                 IF p # 0
                 THEN [products EXCEPT ![p].current_stock = row.stock,
                                       ![p].buffer_stock = row.buffer]
                 ELSE Append(products, [msku |-> row.msku, current_stock |-> row.stock,
                                        buffer_stock |-> row.buffer]),
                 inventory_df, i + 1)

InitFrame ==
    /\ ServeTables
    /\ app \in {"web", "db"}
    /\ handle_combos = TRUE
    /\ prev \in StepLedgers
    /\ current_inventory = IF app = "web" THEN prev ELSE NoLedger
    /\ db = IF app = "web" THEN EmptyDb
            ELSE [EmptyDb EXCEPT !.products = migrate_products(prev)]
    /\ session = begin_session(db)
    /\ op = "init" /\ arg = None /\ ret = [status |-> None]
    /\ run = NoRun

\* the record of a request that was served
Served(kind) == [kind |-> kind, pc |-> "reported"]

\* POST /api/process
FrameProcessFiles ==
    /\ app = "web" /\ Len(run) < MaxServed
    /\ run' = Append(run, Served("process_files"))
    /\ op' = "process_files"
    /\ \E file \in ConcFiles :
           LET r == process_files(current_inventory, <<file>>)
           IN  /\ current_inventory' = r.ledger
               /\ ret' = r.response
    /\ UNCHANGED <<app, mapping_data, combo_mapping, handle_combos, db, session, arg,
                   prev>>

FrameProcessSalesFileToDb ==
    /\ app = "db" /\ Len(run) < MaxServed
    /\ run' = Append(run, Served("process_sales_file_to_db"))
    /\ op' = "process_sales_file_to_db"
    /\ \E file \in ConcFiles :
           LET r == process_sales_file_to_db(db, process_sales_file(file).processed_rows,
                                             "sales.csv", detect_platform(file.columns), 0)
           IN  /\ db' = r.db
               /\ session' = begin_session(r.db)
               /\ ret' = r.result
    /\ UNCHANGED <<app, mapping_data, combo_mapping, handle_combos, current_inventory, arg,
                   prev>>

\* detection, resolution and expansion of one file, nothing else
FrameProcessSalesFile ==
    /\ Len(run) < MaxServed
    /\ run' = Append(run, Served("process_sales_file"))
    /\ op' = "process_sales_file"
    /\ \E file \in ConcFiles : ret' = process_sales_file(file)
    /\ UNCHANGED <<app, mapping_data, combo_mapping, current_inventory, handle_combos,
                   db, session, arg, prev>>

\* GET / and GET /api/dashboard-data
GetDashboardData ==
    /\ app = "web" /\ Len(run) < MaxServed
    /\ run' = Append(run, Served("get_dashboard_data"))
    /\ op' = "get_dashboard_data"
    /\ LET r == get_dashboard_data(current_inventory)
       IN  /\ current_inventory' = r.ledger
           /\ ret' = r.data
    /\ UNCHANGED <<app, mapping_data, combo_mapping, handle_combos, db, session, arg,
                   prev>>

\* GET /api/export-inventory: the ledger is written to a report file
ExportInventory ==
    /\ app = "web" /\ Len(run) < MaxServed
    /\ run' = Append(run, Served("export_inventory"))
    /\ op' = "export_inventory"
    /\ ret' = [status |-> "sent", rows |-> current_inventory]
    /\ UNCHANGED <<app, mapping_data, combo_mapping, current_inventory, handle_combos,
                   db, session, arg, prev>>

\* migrate_from_excel run again on the same workbook
MigrateFromExcel ==
    /\ app = "db" /\ Len(run) < MaxServed
    /\ run' = Append(run, Served("migrate_from_excel"))
    /\ op' = "migrate_from_excel"
    /\ db' = [db EXCEPT !.products = remigrate_products(db.products, prev, 1)]
    /\ session' = begin_session(db')
    /\ ret' = [status |-> "migrated"]
    /\ UNCHANGED <<app, mapping_data, combo_mapping, current_inventory, handle_combos, arg,
                   prev>>

NextFrame ==
    \/ FrameProcessFiles
    \/ FrameProcessSalesFileToDb
    \/ FrameProcessSalesFile
    \/ GetDashboardData
    \/ ExportInventory
    \/ MigrateFromExcel

FrameSpec == InitFrame /\ [][NextFrame]_vars

\* the current stock of every product, of the ledger and of the database
CurrentStocks ==
    <<[i \in DOMAIN current_inventory |-> current_inventory[i].stock],
      [i \in DOMAIN db.products |-> db.products[i].current_stock]>>

\* C20 (as stated): the current stock of a product changes in a reconciliation
\* only; expansion, dashboard reads, report saving and re-runs of the
\* migration leave every current stock as the last reconciliation wrote it.
C20_StockChangedByReconcilerOnly ==
    [][CurrentStocks' # CurrentStocks =>
           op' \in {"process_files", "process_sales_file_to_db"}]_vars


(***************************************************************************)
(* Updates that take a stock below zero.                                   *)
(***************************************************************************)
NegativeWarning(m, x) == [msku |-> m, kind |-> "Negative stock", qty |-> x]

\* what update_inventory of the web application does with such an update
WebNegativeStockWritten ==
    Processed =>
        \A i \in DOMAIN ret.total_inventory_changes :
            LET e == ret.total_inventory_changes[i]
            IN  (LedgerHas(prev, e.k) /\ LedgerStock(prev, e.k) - e.v < 0) =>
                    /\ LedgerStock(current_inventory, e.k) = LedgerStock(prev, e.k) - e.v
                    /\ ret.inventory_update.status = "success"
                    /\ ret.inventory_update.updated_items =
                           Cardinality({j \in DOMAIN ret.total_inventory_changes :
                                            LedgerHas(prev, ret.total_inventory_changes[j].k)})
                    /\ NegativeWarning(e.k, LedgerStock(prev, e.k) - e.v)
                           \in Range(ret.inventory_update.warnings)

\* the same of the database service, in a save whose updates all succeeded
DbNegativeStockWritten ==
    (Saved /\ \A i \in DOMAIN ret.outcomes : ret.outcomes[i].success) =>
        \A i \in DOMAIN ret.delta :
            LET e == ret.delta[i]
            IN  (DbHas(prev, e.k) /\ DbStock(prev, e.k) - e.v < 0) =>
                    /\ DbStock(db.products, e.k) = DbStock(prev, e.k) - e.v
                    /\ ret.outcomes[i].success
                    /\ \E j \in DOMAIN ret.outcomes :
                           /\ ret.outcomes[j].msku = e.k
                           /\ ret.outcomes[j].message = "Negative stock"

\* C21 (as stated): an update that takes a stock below zero is not refused,
\* clamped or reverted: the reconciler writes C + D, counts the item as
\* updated, keeps status 'success' and adds a Negative-stock warning for the
\* MSKU, in the web application and in the database service.
C21_NegativeStockReported == WebNegativeStockWritten /\ DbNegativeStockWritten


(***************************************************************************)
(* detect_platform on the characters of the headers: ' '.join(columns),    *)
(* str.upper and the substring test 'token in columns_str'.  A string is   *)
(* the sequence of its characters.                                         *)
(***************************************************************************)
MaxHeaders == 3

LowerCase == <<"a", "b", "c", "d", "e", "f", "g", "h", "i", "j", "k", "l", "m", "n", "o", "p", "q", "r", "s", "t", "u", "v", "w", "x", "y", "z">>
UpperCase == <<"A", "B", "C", "D", "E", "F", "G", "H", "I", "J", "K", "L", "M", "N", "O", "P", "Q", "R", "S", "T", "U", "V", "W", "X", "Y", "Z">>

upper_char(c) ==
    IF \E i \in DOMAIN LowerCase : LowerCase[i] = c
    THEN UpperCase[CHOOSE i \in DOMAIN LowerCase : LowerCase[i] = c]
    ELSE c

upper(str) == [i \in DOMAIN str |-> upper_char(str[i])]

RECURSIVE join(_, _)
join(sep, strs) ==
    IF strs = <<>> THEN <<>>
    ELSE IF Len(strs) = 1 THEN strs[1]
    ELSE strs[1] \o sep \o join(sep, Tail(strs))

\* token in str
in_str(token, str) ==
    \E i \in 0 .. Len(str) - Len(token) : SubSeq(str, i + 1, i + Len(token)) = token

T_FNSKU == <<"F", "N", "S", "K", "U">>
T_FULFILLMENT_CENTER == <<"F", "U", "L", "F", "I", "L", "L", "M", "E", "N", "T", " ", "C", "E", "N", "T", "E", "R">>
T_ORDER_ITEM_ID == <<"O", "R", "D", "E", "R", " ", "I", "T", "E", "M", " ", "I", "D">>
T_FSN == <<"F", "S", "N">>
T_SUB_ORDER_NO == <<"S", "U", "B", " ", "O", "R", "D", "E", "R", " ", "N", "O">>

\* the detector that looks for the Flipkart tokens first
detect_platform_flipkart_first(columns) ==
    LET columns_str == upper(join(<<" ">>, columns))
    IN  IF in_str(T_ORDER_ITEM_ID, columns_str) \/ in_str(T_FSN, columns_str)
        THEN "Flipkart"
        ELSE IF in_str(T_FNSKU, columns_str) \/ in_str(T_FULFILLMENT_CENTER, columns_str)
        THEN "Amazon"
        ELSE IF in_str(T_SUB_ORDER_NO, columns_str)
        THEN "Meesho"
        ELSE "Unknown"

detect_platform_str(columns) ==
    LET columns_str == upper(join(<<" ">>, columns))
    IN  IF in_str(T_FNSKU, columns_str) \/ in_str(T_FULFILLMENT_CENTER, columns_str)
        THEN "Amazon"
        ELSE IF in_str(T_ORDER_ITEM_ID, columns_str) \/ in_str(T_FSN, columns_str)
        THEN "Flipkart"
        ELSE IF in_str(T_SUB_ORDER_NO, columns_str)
        THEN "Meesho"
        ELSE "Unknown"

\* the headers of the files whose platform is detected
SpelledHeaders ==
    { <<"f", "n", "s", "k", "u">>,
      <<"F", "u", "l", "f", "i", "l", "l", "m", "e", "n", "t", " ", "C", "e", "n", "t", "e", "r">>,
      <<"O", "r", "d", "e", "r", " ", "I", "t", "e", "m", " ", "I", "D">>,
      <<"F", "S", "N">>,
      <<"S", "u", "b", " ", "O", "r", "d", "e", "r", " ", "N", "o">>,
      <<"S", "K", "U">>,
      <<"Q", "u", "a", "n", "t", "i", "t", "y">>,
      <<"S", "u", "b">>,
      <<"o", "r", "d", "e", "r", " ", "n", "o">>,
      <<"T", "r", "a", "n", "s", "f", "s", "n">>,
      <<"C", "e", "n", "t", "e", "r">>,
      <<"F", "u", "l", "f", "i", "l", "l", "m", "e", "n", "t">> }

InitDetect ==
    /\ ServeTables
    /\ app \in {"web", "gui"}
    /\ handle_combos = TRUE
    /\ current_inventory = NoLedger
    /\ db = EmptyDb /\ session = NoSession
    /\ op = "init" /\ arg \in SeqsUpTo(SpelledHeaders, MaxHeaders)
    /\ ret = None /\ prev = NoLedger /\ run = NoRun

WebDetectPlatform ==
    /\ app = "web" /\ op = "init"
    /\ op' = "detect_platform"
    /\ ret' = detect_platform_str(arg)
    /\ UNCHANGED <<app, mapping_data, combo_mapping, current_inventory, handle_combos,
                   db, session, arg, prev, run>>

GuiDetectPlatform ==
    /\ app = "gui" /\ op = "init"
    /\ op' = "detect_platform"
    /\ ret' = detect_platform_str(arg)
    /\ UNCHANGED <<app, mapping_data, combo_mapping, current_inventory, handle_combos,
                   db, session, arg, prev, run>>

NextDetect == WebDetectPlatform \/ GuiDetectPlatform

DetectSpec == InitDetect /\ [][NextDetect]_vars

\* the characters of the header list as one line: every header upper-cased,
\* one space between two headers
RECURSIVE HeaderLine(_)
HeaderLine(columns) ==
    IF columns = <<>> THEN <<>>
    ELSE upper(Head(columns))
         \o (IF Len(columns) > 1 THEN <<" ">> ELSE <<>>) \o HeaderLine(Tail(columns))

\* token stands in line at some position, character by character
Occurs(token, line) ==
    \E start \in 1 .. Len(line) :
        /\ start + Len(token) - 1 <= Len(line)
        /\ \A k \in 1 .. Len(token) : line[start + k - 1] = token[k]

AmazonToken(columns) ==
    Occurs(T_FNSKU, HeaderLine(columns)) \/ Occurs(T_FULFILLMENT_CENTER, HeaderLine(columns))

FlipkartToken(columns) ==
    Occurs(T_ORDER_ITEM_ID, HeaderLine(columns)) \/ Occurs(T_FSN, HeaderLine(columns))

MeeshoToken(columns) == Occurs(T_SUB_ORDER_NO, HeaderLine(columns))

\* C22: detect_platform gives Amazon when the upper-cased, space-joined
\* header list contains FNSKU or FULFILLMENT CENTER, otherwise Flipkart when
\* it contains ORDER ITEM ID or FSN, otherwise Meesho when it contains SUB
\* ORDER NO, otherwise Unknown; with tokens of several platforms the earliest
\* platform of this order is returned, and nothing but these four values.
C22_DetectPlatformPrecedence ==
    op = "detect_platform" =>
        /\ ret \in {"Amazon", "Flipkart", "Meesho", "Unknown"}
        /\ ret = "Amazon" <=> AmazonToken(arg)
        /\ ret = "Flipkart" <=> (~AmazonToken(arg) /\ FlipkartToken(arg))
        /\ ret = "Meesho" <=> (~AmazonToken(arg) /\ ~FlipkartToken(arg) /\ MeeshoToken(arg))
        /\ ret = "Unknown" <=>
               (~AmazonToken(arg) /\ ~FlipkartToken(arg) /\ ~MeeshoToken(arg))

\* headers with the tokens of all three platforms, the Amazon one last and in
\* lower case, are classified Amazon
C22_Witness ==
    /\ op = "detect_platform" /\ ret = "Amazon"
    /\ Len(arg) = 3
    /\ arg[1] = <<"S", "u", "b", " ", "O", "r", "d", "e", "r", " ", "N", "o">>
    /\ arg[2] = <<"F", "S", "N">>
    /\ arg[3] = <<"f", "n", "s", "k", "u">>


(***************************************************************************)
(* The combo table built from the 'Combos skus' sheet, and a SKU resolved  *)
(* with it.  arg is the sheet (combo_data).                                *)
(***************************************************************************)
MaxSheetRows == 2

SheetRows == [Combo : {"CX", "S1", NaN}, SKU : [1 .. MaxComboCols -> MSKUs \cup {NaN}]]

InitCombo ==
    /\ mapping_data = <<[sku |-> "S1", msku |-> "A"]>>
    /\ combo_mapping = EmptyDict
    /\ app \in {"web", "gui"}
    /\ handle_combos = TRUE
    /\ current_inventory = NoLedger
    /\ db = EmptyDb /\ session = NoSession
    /\ op = "init" /\ arg \in SeqsUpTo(SheetRows, MaxSheetRows)
    /\ ret = None /\ prev = NoLedger /\ run = NoRun

\* load_wms_data: self.combo_mapping = self.create_combo_mapping()
CreateComboMapping ==
    /\ op = "init"
    /\ op' = "create_combo_mapping"
    /\ combo_mapping' = create_combo_mapping(arg)
    /\ UNCHANGED <<app, mapping_data, current_inventory, handle_combos,
                   db, session, arg, ret, prev, run>>

\* a SKU resolved with the tables as loaded
MapSkuAfterLoad ==
    /\ op = "create_combo_mapping"
    /\ op' = "map_sku_to_msku"
    /\ \E sku \in SKUs :
           ret' = [sku |-> sku,
                   result |-> IF app = "web" THEN map_sku_to_msku(sku)
                              ELSE gui_map_sku_to_msku(sku)]
    /\ UNCHANGED <<app, mapping_data, combo_mapping, current_inventory, handle_combos,
                   db, session, arg, prev, run>>

NextCombo == CreateComboMapping \/ MapSkuAfterLoad

ComboSpec == InitCombo /\ [][NextCombo]_vars

\* the non-blank SKU1.. values of a sheet row, in column order
NonBlank(row) ==
    LET keep == {i \in DOMAIN row.SKU : row.SKU[i] # NaN}
    IN  [n \in 1 .. Cardinality(keep) |->
            row.SKU[CHOOSE i \in keep : Cardinality({j \in keep : j <= i}) = n]]

\* the sheet rows that define a combo: combo SKU not blank, some component
Defines(sheet, c) ==
    {i \in DOMAIN sheet : sheet[i].Combo = c /\ \E j \in DOMAIN sheet[i].SKU :
                                                    sheet[i].SKU[j] # NaN}

ComboLoaded == op \in {"create_combo_mapping", "map_sku_to_msku"}

\* C23: the combo table holds exactly the non-blank combo SKUs that have a row
\* with a non-blank component, each with the non-blank SKU1.. values of that
\* row in column order (of the last such row when the sheet names the combo
\* SKU twice); a row with a blank combo SKU or with no component enters
\* nothing, so no list of the table is empty and a SKU defined by such rows
\* only is resolved as single or not found, never as a combo.
C23_ComboTableFromSheet ==
    /\ ComboLoaded =>
           /\ \A c \in DOMAIN combo_mapping :
                  /\ c # NaN
                  /\ Defines(arg, c) # {}
                  /\ combo_mapping[c] # <<>>
                  /\ combo_mapping[c] =
                         NonBlank(arg[CHOOSE i \in Defines(arg, c) :
                                          \A j \in Defines(arg, c) : j <= i])
           /\ \A c \in {"CX", "S1"} : Defines(arg, c) # {} => c \in DOMAIN combo_mapping
    /\ op = "map_sku_to_msku" =>
           IF Defines(arg, ret.sku) # {}
           THEN ret.result.type = "combo" /\ ret.result.components # <<>>
           ELSE ret.result.type \in {"single", "not_found"}

\* a row with a combo SKU and no component, a row with a blank combo SKU, and
\* the combo SKU of the first then resolved through the mapping table
C23_Witness ==
    /\ op = "map_sku_to_msku" /\ Len(arg) = 2
    /\ arg[1].Combo = "S1" /\ \A j \in DOMAIN arg[1].SKU : arg[1].SKU[j] = NaN
    /\ arg[2].Combo = NaN /\ arg[2].SKU[1] = "A"
    /\ combo_mapping = EmptyDict
    /\ ret.sku = "S1" /\ ret.result.type = "single"


(***************************************************************************)
(* The lines of the web expander against the accepted rows of the file.    *)
(***************************************************************************)
WebExpanded == Expanded /\ app = "web"

SkuOf(file, row) == row[SkuColumnOf(file)]

\* the number of lines an accepted row stands for
LinesFor(sku) == IF sku \in DOMAIN combo_mapping THEN Len(combo_mapping[sku]) ELSE 1

\* the number of lines of the accepted rows before row n
RECURSIVE LinesBefore(_, _)
LinesBefore(file, n) ==
    IF n <= 1 THEN 0
    ELSE LinesBefore(file, n - 1)
         + (IF Accepted(file, file.rows[n - 1])
            THEN LinesFor(SkuOf(file, file.rows[n - 1])) ELSE 0)

\* C24: the lines of a file are those of its accepted rows, in row order and
\* nothing else: for a combo SKU of k components, k lines tagged
\* Combo_Component, one per component in component order, each with the row's
\* SKU as Original_SKU and the row's full quantity; for a SKU of the mapping
\* table one line tagged Single with its MSKU; otherwise one line tagged
\* Unknown.
C24_LineCountAndTagging ==
    WebExpanded =>
        LET lines == ret.processed_rows
        IN  /\ Len(lines) = LinesBefore(arg, Len(arg.rows) + 1)
            /\ \A n \in DOMAIN arg.rows :
                   Accepted(arg, arg.rows[n]) =>
                       LET sku == SkuOf(arg, arg.rows[n])
                           at == LinesBefore(arg, n)
                       IN  IF sku \in DOMAIN combo_mapping
                           THEN \A j \in DOMAIN combo_mapping[sku] :
                                    /\ lines[at + j]["Product_Type"] = "Combo_Component"
                                    /\ lines[at + j]["MSKU"] = combo_mapping[sku][j]
                                    /\ lines[at + j]["Original_SKU"] = sku
                                    /\ lines[at + j]["Quantity"] = QuantityOf(arg.rows[n])
                           ELSE IF \E i \in DOMAIN mapping_data : mapping_data[i].sku = sku
                           THEN /\ lines[at + 1]["Product_Type"] = "Single"
                                /\ lines[at + 1]["MSKU"] \in
                                       {mapping_data[i].msku : i \in DOMAIN mapping_data}
                                /\ QuantityOf(lines[at + 1]) = QuantityOf(arg.rows[n])
                           ELSE /\ lines[at + 1]["Product_Type"] = "Unknown"
                                /\ lines[at + 1]["MSKU"] = NotFound

\* a row that is skipped, then a combo of two components sold twice, then
\* nothing else: two lines
C24_Witness ==
    /\ WebExpanded /\ Len(arg.rows) = 2
    /\ ~Accepted(arg, arg.rows[1]) /\ Accepted(arg, arg.rows[2])
    /\ SkuOf(arg, arg.rows[2]) \in DOMAIN combo_mapping
    /\ Len(combo_mapping[SkuOf(arg, arg.rows[2])]) = 2
    /\ QuantityOf(arg.rows[2]) = 2
    /\ Len(ret.processed_rows) = 2
    /\ \A j \in 1 .. 2 : ret.processed_rows[j]["Product_Type"] = "Combo_Component"


(***************************************************************************)
(* What a reconciliation leaves alone.                                     *)
(***************************************************************************)
SavedOrFailed == op = "process_sales_file_to_db"

\* C25: a reconciliation changes the stock of no product whose MSKU is not a
\* key of the delta map, in the ledger and in the products table alike; with
\* an empty delta map update_inventory answers with status 'warning' and no
\* stock changes at all.
C25_OnlyDeltaMskusTouched ==
    /\ Processed =>
           LET changes == ret.total_inventory_changes
           IN  /\ DOMAIN current_inventory = DOMAIN prev
               /\ \A j \in DOMAIN prev :
                      ~Has(changes, prev[j].msku) =>
                          current_inventory[j].stock = prev[j].stock
               /\ changes = <<>> =>
                      /\ ret.inventory_update.status = "warning"
                      /\ current_inventory = prev
               /\ changes # <<>> => ret.inventory_update.status # "warning"
    /\ SavedOrFailed =>
           LET changes == db_inventory_changes(arg.processed_df)
           IN  /\ DOMAIN db.products = DOMAIN prev
               /\ \A j \in DOMAIN prev :
                      ~Has(changes, prev[j].msku) =>
                          db.products[j].current_stock = prev[j].current_stock
               /\ changes = <<>> => db.products = prev

\* a ledger of two products, one of them sold: the other keeps its stock
C25_Witness ==
    /\ Updated
    /\ Len(prev) = 2 /\ prev[1].msku # prev[2].msku
    /\ Has(ret.total_inventory_changes, prev[1].msku)
    /\ ~Has(ret.total_inventory_changes, prev[2].msku)
    /\ current_inventory[1].stock < prev[1].stock
    /\ current_inventory[2].stock = prev[2].stock

\* a batch whose files give no line: the empty delta map
C25_WitnessEmpty ==
    /\ Processed /\ ret.total_inventory_changes = <<>>
    /\ ret.inventory_update.status = "warning"
    /\ current_inventory = prev /\ prev # <<>>



(***************************************************************************)
(* The counters of process_sales_file_to_db and the status it logs.  The   *)
(* frames are the expanded lines of a file, or lines whose quantities are  *)
(* text.                                                                   *)
(***************************************************************************)
TextQuantities == {"1", "2", "abc"}

TextLines ==
    {("MSKU" :> m) @@ ("Quantity" :> q) @@ ("Original_SKU" :> "S1") @@
     ("Product_Type" :> "Single") : m \in MSKUs, q \in TextQuantities}

TextFrames == SeqsUpTo(TextLines, MaxRows)

InitAccount ==
    /\ InitBatchTables
    /\ app = "service"
    /\ handle_combos = TRUE
    /\ current_inventory = NoLedger
    /\ \E ledger \in Ledgers :
           db = [EmptyDb EXCEPT !.products = migrate_products(ledger)]
    /\ session = begin_session(db)
    /\ op = "init"
    /\ \E frame \in TextFrames, fault \in 0 .. 1 :
           arg = [processed_df |-> frame, platform |-> "Flipkart", fault |-> fault]
    /\ ret = None /\ prev = NoLedger /\ run = NoRun

ProcessTextFrameToDb ==
    /\ app = "service" /\ op = "init"
    /\ op' = "process_sales_file_to_db"
    /\ LET r == process_text_frame_to_db(db, arg.processed_df, "sales.csv", arg.platform,
                                         arg.fault)
       IN  /\ db' = r.db
           /\ session' = begin_session(r.db)
           /\ ret' = r.result
    /\ prev' = db.products
    /\ UNCHANGED <<app, mapping_data, combo_mapping, handle_combos, current_inventory, arg, run>>

NextAccount == ProcessSalesFileToDb \/ ProcessTextFrameToDb

AccountSpec == (InitDb \/ InitAccount) /\ [][NextAccount]_vars

LoggedRun == db.logs[Len(db.logs)]

\* handling line i of the frame raises
RaisesAt(i) ==
    IF app = "service"
    THEN int_raises_on_text(arg.processed_df[i]["Quantity"])
    ELSE LineRaises(arg.processed_df, arg.processed_df[i])

\* C26: when process_sales_file_to_db returns status 'success', every line is
\* counted once, as successful or as failed (successful_records +
\* failed_records = total_records = the number of lines, the failed ones being
\* the lines whose handling raised), and the logged status is 'Success' exactly
\* when no line failed, 'Partial' exactly when some failed and some succeeded,
\* 'Failed' exactly when some failed and none succeeded.
C26_RowAccounting ==
    Saved =>
        /\ ret.total_records = Len(arg.processed_df)
        /\ ret.successful_records + ret.failed_records = ret.total_records
        /\ ret.failed_records = Cardinality({i \in DOMAIN arg.processed_df : RaisesAt(i)})
        /\ db.logs # <<>>
        /\ LoggedRun.total_records = ret.total_records
        /\ LoggedRun.successful_records = ret.successful_records
        /\ LoggedRun.failed_records = ret.failed_records
        /\ LoggedRun.status \in {"Success", "Partial", "Failed"}
        /\ LoggedRun.status = "Success" <=> ret.failed_records = 0
        /\ LoggedRun.status = "Partial" <=>
               (ret.failed_records > 0 /\ ret.successful_records > 0)
        /\ LoggedRun.status = "Failed" <=>
               (ret.failed_records > 0 /\ ret.successful_records = 0)

\* two lines, one of which fails: logged as 'Partial'
C26_Witness ==
    /\ Saved
    /\ ret.total_records = 2 /\ ret.successful_records = 1 /\ ret.failed_records = 1
    /\ db.logs # <<>> /\ LoggedRun.status = "Partial"

\* every line fails: logged as 'Failed'
C26_WitnessFailed ==
    /\ Saved
    /\ ret.failed_records = 2 /\ ret.successful_records = 0
    /\ db.logs # <<>> /\ LoggedRun.status = "Failed"


(***************************************************************************)
(* The movements table as a trail of the products' stock.                  *)
(***************************************************************************)
MovementsOf(movements, m) == SelectSeq(movements, LAMBDA x : x.msku = m)

\* every movement adds up, the movements of one MSKU follow one another, and
\* the stock of a product that has movements is what the last one left
TrailKept ==
    \A m \in {db.products[p].msku : p \in DOMAIN db.products} :
        LET trail == MovementsOf(db.movements, m)
        IN  /\ \A j \in DOMAIN trail :
                   /\ trail[j].stock_after = trail[j].stock_before + trail[j].quantity_change
                   /\ j > 1 => trail[j].stock_before = trail[j - 1].stock_after
            /\ trail # <<>> => DbStock(db.products, m) = trail[Len(trail)].stock_after

\* the movements a save adds are those of its successful updates, one each
OneMovementPerSuccess ==
    (op' = "process_sales_file_to_db" /\ ret'.status = "success") =>
        LET new == SubSeq(db'.movements, Len(db.movements) + 1, Len(db'.movements))
            succeeded == SelectSeq(ret'.outcomes, LAMBDA o : o.success)
        IN  /\ Len(db'.movements) >= Len(db.movements)
            /\ Len(new) = Len(succeeded)
            /\ \A j \in DOMAIN new : new[j].msku = succeeded[j].msku

\* C27 (as stated): every successful update_inventory call records exactly one
\* movement with stock_after = stock_before + quantity_change and leaves the
\* product's stock at that stock_after; the movements of one MSKU chain, each
\* stock_before being the previous stock_after; a failed update records none.
C27_MovementAuditTrail == []TrailKept /\ [][OneMovementPerSuccess]_vars


(***************************************************************************)
(* One file of up to MaxRows rows processed by the web application, with a *)
(* combo whose components may be the same MSKU twice.                      *)
(***************************************************************************)
RepeatCombos == {<<"A">>, <<"A", "A">>, <<"A", "B">>, <<"B", "A">>}

InitRepeat ==
    /\ mapping_data = <<[sku |-> "S1", msku |-> "A"]>>
    /\ \E components \in RepeatCombos :
           combo_mapping = create_combo_mapping(<<[Combo |-> "CX", SKU |-> components]>>)
    /\ app = "web"
    /\ handle_combos = TRUE
    /\ current_inventory \in StepLedgers
    /\ db = EmptyDb /\ session = begin_session(EmptyDb)
    /\ op = "init"
    /\ \E file \in FilesOf({<<"SKU", "Order Item ID", "Quantity">>}, MaxRows) :
           arg = <<file>>
    /\ ret = None /\ prev = NoLedger /\ run = NoRun

RepeatSpec == InitRepeat /\ [][ProcessFiles]_vars

\* how often m is a component of the combo
TimesIn(components, m) == Cardinality({j \in DOMAIN components : components[j] = m})

\* the lines of MSKU m one accepted row stands for
LinesOfMsku(sku, m) ==
    IF sku \in DOMAIN combo_mapping THEN TimesIn(combo_mapping[sku], m)
    ELSE IF \E i \in DOMAIN mapping_data :
                mapping_data[i].sku = sku /\ mapping_data[i].msku = m
    THEN 1 ELSE 0

\* the lines and the units of MSKU m in the first n rows of the file
RECURSIVE SoldOf(_, _, _)
SoldOf(file, n, m) ==
    IF n = 0 THEN [lines |-> 0, units |-> 0]
    ELSE LET before == SoldOf(file, n - 1, m)
             row == file.rows[n]
         IN  IF Accepted(file, row)
             THEN [lines |-> before.lines + LinesOfMsku(SkuOf(file, row), m),
                   units |-> before.units
                             + LinesOfMsku(SkuOf(file, row), m) * QuantityOf(row)]
             ELSE before

LinesWithMsku(lines, m) == Cardinality({i \in DOMAIN lines : lines[i]["MSKU"] = m})

\* C28: an MSKU that is j times a component of a combo sold with quantity N
\* gets j lines and j*N units in the delta map; the units of an MSKU sold as a
\* single item and as a combo component in one file add up; and the
\* reconciliation takes exactly these units off the MSKU's stock.
C28_RepeatedComponentsAddUp ==
    (Processed /\ Len(arg) = 1) =>
        \A m \in MSKUs :
            LET sold == SoldOf(arg[1], Len(arg[1].rows), m)
                changes == ret.total_inventory_changes
            IN  /\ LinesWithMsku(ret.returns[1].processed_rows, m) = sold.lines
                /\ Has(changes, m) <=> sold.units > 0
                /\ Has(changes, m) => Get(changes, m) = sold.units
                /\ LedgerHas(prev, m) =>
                       LedgerStock(current_inventory, m) = LedgerStock(prev, m) - sold.units

\* the combo CX of A and A sold twice and A sold once as S1: three lines of A,
\* five units, stock 6 -> 1
C28_Witness ==
    /\ Updated /\ Len(arg) = 1 /\ Len(arg[1].rows) = 2
    /\ combo_mapping["CX"] = <<"A", "A">>
    /\ arg[1].rows[1]["SKU"] = "CX" /\ arg[1].rows[1]["Quantity"] = 2
    /\ arg[1].rows[2]["SKU"] = "S1" /\ arg[1].rows[2]["Quantity"] = 1
    /\ LinesWithMsku(ret.returns[1].processed_rows, "A") = 3
    /\ ret.total_inventory_changes = <<[k |-> "A", v |-> 5]>>
    /\ LedgerHas(prev, "A") /\ LedgerStock(prev, "A") = 6
    /\ LedgerStock(current_inventory, "A") = 1


(***************************************************************************)
(* Sales files with blank quantity cells.  read_csv gives a 'Quantity'     *)
(* column that has a blank cell the dtype float64 and the blank cell the   *)
(* value NaN.  A float is modelled as a record: nan says that it is NaN, v *)
(* is its value otherwise.  Every comparison with NaN is False and every   *)
(* sum or difference with NaN is NaN.                                      *)
(***************************************************************************)
MaxBatches == 2

Float(n) == [nan |-> FALSE, v |-> n]
FloatNaN == [nan |-> TRUE, v |-> 0]

float_le(a, n) == ~a.nan /\ a.v <= n
float_add(a, b) == IF a.nan \/ b.nan THEN FloatNaN ELSE Float(a.v + b.v)
float_sub(a, b) == IF a.nan \/ b.nan THEN FloatNaN ELSE Float(a.v - b.v)

\* inventory_changes[k] += q, or = q for a new key
float_dict_add(d, k, q) ==
    IF Has(d, k)
    THEN [i \in DOMAIN d |-> IF d[i].k = k THEN [k |-> k, v |-> float_add(d[i].v, q)] ELSE d[i]]
    ELSE Append(d, [k |-> k, v |-> q])

float_missing_data(sku, quantity) == isna(sku) \/ float_le(quantity, 0)

RECURSIVE float_combo_lines(_, _, _, _, _, _)
float_combo_lines(row, sku, quantity, components, platform_field, acc) ==
    IF components = <<>> THEN acc
    ELSE LET component_msku == Head(components)
             combo_row == with_fields(row,
                 ("Original_SKU" :> sku) @@ ("MSKU" :> component_msku) @@
                 ("Quantity" :> quantity) @@ ("Product_Type" :> "Combo_Component") @@
                 platform_field)
         IN  float_combo_lines(row, sku, quantity, Tail(components), platform_field,
                 [processed_rows |-> Append(acc.processed_rows, combo_row),
                  inventory_changes |->
                      float_dict_add(acc.inventory_changes, component_msku, quantity)])

float_expand_row(row, sku, quantity, mapping_result, platform_field, acc) ==
    IF mapping_result.type = "combo"
    THEN float_combo_lines(row, sku, quantity, mapping_result.components, platform_field, acc)
    ELSE IF mapping_result.type = "single"
    THEN LET new_row == with_fields(row,
                 ("MSKU" :> mapping_result.msku) @@ ("Product_Type" :> "Single") @@
                 platform_field)
         IN  [processed_rows |-> Append(acc.processed_rows, new_row),
              inventory_changes |->
                  float_dict_add(acc.inventory_changes, mapping_result.msku, quantity)]
    ELSE LET new_row == with_fields(row,
                 ("MSKU" :> NotFound) @@ ("Product_Type" :> "Unknown") @@ platform_field)
         IN  [processed_rows |-> Append(acc.processed_rows, new_row),
              inventory_changes |-> acc.inventory_changes]

float_process_row(row, sku_column, platform, acc) ==
    LET sku == row[sku_column]
        quantity == row_get(row, "Quantity", Float(1))
    IN  IF float_missing_data(sku, quantity) THEN acc
        ELSE IF platform = "Amazon" /\ amazon_excluded(row) THEN acc
        ELSE float_expand_row(row, sku, quantity, map_sku_to_msku(sku),
                              "Platform" :> platform, acc)

RECURSIVE float_process_rows(_, _, _, _, _)
float_process_rows(rows, i, sku_column, platform, acc) ==
    IF i > Len(rows) THEN acc
    ELSE float_process_rows(rows, i + 1, sku_column, platform,
                            float_process_row(rows[i], sku_column, platform, acc))

float_process_sales_file(file) ==
    LET platform == detect_platform(file.columns)
        sku_column == get_sku_column(file.columns, platform)
    IN  IF sku_column = None
        THEN [df_none |-> TRUE, processed_rows |-> <<>>, inventory_changes |-> <<>>,
              error |-> no_sku_column_message(platform)]
        ELSE LET acc == float_process_rows(file.rows, 1, sku_column, platform, EmptyAcc)
             IN  [df_none |-> FALSE, processed_rows |-> acc.processed_rows,
                  inventory_changes |-> acc.inventory_changes, error |-> None]

RECURSIVE float_combine(_, _, _)
float_combine(total, inventory_changes, i) ==
    IF i > Len(inventory_changes) THEN total
    ELSE float_combine(float_dict_add(total, inventory_changes[i].k, inventory_changes[i].v),
                       inventory_changes, i + 1)

RECURSIVE float_file_steps(_, _, _)
float_file_steps(file_paths, i, st) ==
    IF i > Len(file_paths) THEN st
    ELSE LET r == float_process_sales_file(file_paths[i])
         IN  float_file_steps(file_paths, i + 1,
                 IF ~Truthy(r.error) /\ ~r.df_none /\ r.processed_rows # <<>>
                 THEN [returns |-> Append(st.returns, r.inventory_changes),
                       total_inventory_changes |->
                           float_combine(st.total_inventory_changes, r.inventory_changes, 1)]
                 ELSE [returns |-> Append(st.returns, <<>>),
                       total_inventory_changes |-> st.total_inventory_changes])

float_update_entry(ledger, msku, quantity_sold) ==
    IF mask_any(ledger, msku)
    THEN LET current_qty == first_match(ledger, msku).stock
             new_qty == float_sub(current_qty, quantity_sold)
         IN  set_stock(ledger, msku, new_qty)
    ELSE ledger

RECURSIVE float_update_entries(_, _, _)
float_update_entries(inventory_changes, i, ledger) ==
    IF i > Len(inventory_changes) THEN ledger
    ELSE float_update_entries(inventory_changes, i + 1,
             float_update_entry(ledger, inventory_changes[i].k, inventory_changes[i].v))

FloatQuantities == {Float(0), Float(1), Float(2), FloatNaN}

FloatFiles ==
    {[columns |-> <<"SKU", "Order Item ID", "Quantity">>, rows |-> rs] :
        rs \in SeqsUpTo({("SKU" :> sku) @@ ("Order Item ID" :> "x") @@ ("Quantity" :> q) :
                            sku \in SKUs, q \in FloatQuantities}, MaxBatchRows)}

FloatLedgers ==
    {[i \in DOMAIN ledger |-> [ledger[i] EXCEPT !.stock = Float(@)]] : ledger \in StepLedgers}

InitBlank ==
    /\ ServeTables
    /\ app = "web"
    /\ handle_combos = TRUE
    /\ current_inventory \in FloatLedgers
    /\ db = EmptyDb /\ session = begin_session(EmptyDb)
    /\ op = "init" /\ arg = <<>>
    /\ ret = [returns |-> <<>>, total_inventory_changes |-> <<>>]
    /\ prev = current_inventory
    /\ run = NoRun

\* POST /api/process with one or more files, one batch after another
BlankProcessFiles ==
    /\ Len(run) < MaxBatches
    /\ run' = Append(run, Served("process_files"))
    /\ op' = "process_files"
    /\ \E file_paths \in SeqsUpTo(FloatFiles, MaxFiles) \ {<<>>} :
           LET st == float_file_steps(file_paths, 1,
                         [returns |-> <<>>, total_inventory_changes |-> <<>>])
           IN  /\ arg' = file_paths
               /\ ret' = st
               /\ current_inventory' =
                      IF st.total_inventory_changes = <<>> THEN current_inventory
                      ELSE float_update_entries(st.total_inventory_changes, 1,
                                                current_inventory)
    /\ prev' = current_inventory
    /\ UNCHANGED <<app, mapping_data, combo_mapping, handle_combos, db, session>>

BlankSpec == InitBlank /\ [][BlankProcessFiles]_vars

DeltaValues ==
    {ret.total_inventory_changes[i].v : i \in DOMAIN ret.total_inventory_changes}
        \cup UNION {{ret.returns[f][i].v : i \in DOMAIN ret.returns[f]} :
                        f \in DOMAIN ret.returns}

\* C29 (as stated): every value of a file's delta map and of the combined map
\* of a batch is a strictly positive quantity sold, so a batch raises the
\* stock of no product and lowers the stock of every ledger MSKU that is a
\* key of the combined map.
C29_SalesOnlyReduceStock ==
    op = "process_files" =>
        /\ \A q \in DeltaValues : ~q.nan /\ q.v > 0
        /\ \A j \in DOMAIN prev :
               /\ ~current_inventory[j].stock.nan
               /\ current_inventory[j].stock.v <= prev[j].stock.v
               /\ Has(ret.total_inventory_changes, prev[j].msku) =>
                      current_inventory[j].stock.v < prev[j].stock.v

\* the same for batches whose files have no blank quantity cell
NoBlankQuantity ==
    \A f \in DOMAIN arg : \A n \in DOMAIN arg[f].rows : ~arg[f].rows[n]["Quantity"].nan

NoBlankQuantityBefore ==
    \A j \in DOMAIN prev : ~prev[j].stock.nan

C29_ReducedWithoutBlanks ==
    (op = "process_files" /\ NoBlankQuantity /\ NoBlankQuantityBefore) =>
        /\ \A q \in DeltaValues : ~q.nan /\ q.v > 0
        /\ \A j \in DOMAIN prev :
               /\ ~current_inventory[j].stock.nan
               /\ current_inventory[j].stock.v <= prev[j].stock.v
               /\ Has(ret.total_inventory_changes, prev[j].msku) =>
                      current_inventory[j].stock.v < prev[j].stock.v


(***************************************************************************)
(* AIDataLayer: the keyword matcher natural_language_to_sql and            *)
(* process_ai_query.  A query is a string, a sequence of characters; the   *)
(* result of the matcher is a dict, or None when the function ends without *)
(* a return statement (is_none).  sql is the name of the template used.    *)
(***************************************************************************)
MaxWords == 2

lower_char(c) ==
    IF \E i \in DOMAIN UpperCase : UpperCase[i] = c
    THEN LowerCase[CHOOSE i \in DOMAIN UpperCase : UpperCase[i] = c]
    ELSE c

lower(str) == [i \in DOMAIN str |-> lower_char(str[i])]

TopWords == { <<"t", "o", "p">>,
             <<"b", "e", "s", "t">>,
             <<"h", "i", "g", "h", "e", "s", "t">>,
             <<"m", "o", "s", "t">> }
SellingWords == { <<"s", "e", "l", "l", "i", "n", "g">>,
                 <<"s", "o", "l", "d">>,
                 <<"s", "a", "l", "e", "s">> }
StockWords == { <<"l", "o", "w", " ", "s", "t", "o", "c", "k">>,
               <<"s", "t", "o", "c", "k", " ", "l", "e", "v", "e", "l">>,
               <<"i", "n", "v", "e", "n", "t", "o", "r", "y">> }
PlatformWords == { <<"p", "l", "a", "t", "f", "o", "r", "m">>,
                  <<"a", "m", "a", "z", "o", "n">>,
                  <<"f", "l", "i", "p", "k", "a", "r", "t">>,
                  <<"m", "e", "e", "s", "h", "o">> }
ShortageWords == { <<"n", "e", "g", "a", "t", "i", "v", "e">>,
                  <<"s", "h", "o", "r", "t", "a", "g", "e">> }
MovementWords == { <<"m", "o", "v", "e", "m", "e", "n", "t">>,
                  <<"f", "l", "o", "w">> }

\* any(word in query_lower for word in words)
any_in(words, query_lower) == \E word \in words : in_str(word, query_lower)

QueryInfo(sql, chart_type, title) ==
    [is_none |-> FALSE, sql |-> sql, chart_type |-> chart_type, title |-> title]

NoQueryInfo == [is_none |-> TRUE, sql |-> None, chart_type |-> None, title |-> None]

DefaultQueryInfo ==
    QueryInfo("SELECT COUNT(*) as total_products FROM products", "metric", "Total Products")

natural_language_to_sql(query) ==
    LET query_lower == lower(query)
    IN  IF any_in(TopWords, query_lower)
        THEN IF any_in(SellingWords, query_lower)
             THEN QueryInfo("top_selling", "bar", "Top Selling Products (Last 30 Days)")
             ELSE NoQueryInfo
        ELSE IF any_in(StockWords, query_lower)
        THEN QueryInfo("low_stock", "table", "Low Stock Products")
        ELSE IF any_in(PlatformWords, query_lower)
        THEN QueryInfo("platform_sales", "pie", "Sales by Platform (Last 30 Days)")
        ELSE IF any_in(ShortageWords, query_lower)
        THEN QueryInfo("negative_stock", "table", "Products with Negative Stock")
        ELSE IF any_in(MovementWords, query_lower)
        THEN QueryInfo("inventory_movement", "stacked_bar", "Inventory Movements (Last 7 Days)")
        ELSE DefaultQueryInfo

NotSubscriptable == "'NoneType' object is not subscriptable"

\* df_empty: the query gives no rows
process_ai_query(user_query, df_empty) ==
    LET query_info == natural_language_to_sql(user_query)
    IN  IF query_info.is_none
        THEN [success |-> FALSE, error |-> NotSubscriptable, message |-> None,
              query |-> user_query, sql |-> None]
        ELSE IF df_empty
        THEN [success |-> FALSE, error |-> None, message |-> "No data found for your query",
              query |-> user_query, sql |-> query_info.sql]
        ELSE [success |-> TRUE, error |-> None, message |-> None,
              query |-> user_query, sql |-> query_info.sql]

QueryWords == { <<"T", "o", "p">>,
               <<"b", "e", "s", "t">>,
               <<"S", "e", "l", "l", "i", "n", "g">>,
               <<"s", "o", "l", "d">>,
               <<"s", "t", "o", "p">>,
               <<"I", "n", "v", "e", "n", "t", "o", "r", "y">>,
               <<"l", "o", "w">>,
               <<"s", "t", "o", "c", "k">>,
               <<"A", "m", "a", "z", "o", "n">>,
               <<"s", "h", "o", "r", "t", "a", "g", "e">>,
               <<"f", "l", "o", "w">>,
               <<"p", "r", "o", "d", "u", "c", "t", "s">> }

Queries == {join(<<" ">>, ws) : ws \in SeqsUpTo(QueryWords, MaxWords)}

InitAi ==
    /\ ServeTables
    /\ app = "ai"
    /\ handle_combos = TRUE
    /\ current_inventory = NoLedger
    /\ db = EmptyDb /\ session = NoSession
    /\ op = "init"
    /\ \E query \in Queries, df_empty \in BOOLEAN :
           arg = [query |-> query, df_empty |-> df_empty]
    /\ ret = NoQueryInfo /\ prev = NoLedger /\ run = NoRun

NaturalLanguageToSql ==
    /\ app = "ai" /\ op = "init"
    /\ op' = "natural_language_to_sql"
    /\ ret' = natural_language_to_sql(arg.query)
    /\ UNCHANGED <<app, mapping_data, combo_mapping, current_inventory, handle_combos,
                   db, session, arg, prev, run>>

ProcessAiQuery ==
    /\ app = "ai" /\ op = "init"
    /\ op' = "process_ai_query"
    /\ ret' = process_ai_query(arg.query, arg.df_empty)
    /\ UNCHANGED <<app, mapping_data, combo_mapping, current_inventory, handle_combos,
                   db, session, arg, prev, run>>

NextAi == NaturalLanguageToSql \/ ProcessAiQuery

AiSpec == InitAi /\ [][NextAi]_vars

QueryHas(words) == \E word \in words : in_str(word, lower(arg.query))

NoGroupMatches ==
    /\ ~(QueryHas(TopWords) /\ QueryHas(SellingWords))
    /\ ~QueryHas(StockWords) /\ ~QueryHas(PlatformWords)
    /\ ~QueryHas(ShortageWords) /\ ~QueryHas(MovementWords)

\* C30 (as stated): for every query natural_language_to_sql returns a dict
\* with an SQL template, a chart type and a title, the default 'Total
\* Products' one when no keyword group matches, also for a query that has a
\* top word and no selling word; process_ai_query never fails for lack of a
\* template.
C30_KeywordMatcherTotal ==
    /\ op = "natural_language_to_sql" =>
           /\ ~ret.is_none
           /\ ret.sql # None /\ ret.chart_type # None /\ ret.title # None
           /\ NoGroupMatches => ret = DefaultQueryInfo
    /\ op = "process_ai_query" => ret.error # NotSubscriptable

\* the same for the queries without a top word, or with a selling word
C30_TotalWithoutLoneTopWord ==
    (~QueryHas(TopWords) \/ QueryHas(SellingWords)) =>
        /\ op = "natural_language_to_sql" =>
               /\ ~ret.is_none
               /\ NoGroupMatches => ret = DefaultQueryInfo
        /\ op = "process_ai_query" => ret.error # NotSubscriptable

====
